---- MODULE Spec2Model ----
(***************************************************************************)
(* Delta-neutral basis-trade backtests of joasgard/Basisfeasibility.       *)
(*                                                                         *)
(*   scripts/lib/simulation.py     conditional deployment (IDLE/DEPLOYED)  *)
(*   scripts/backtest_comparison.py capital rebalance + liquidation, per   *)
(*                                  venue (Hyperliquid / Drift)            *)
(*   scripts/backtest_rebalance.py  the same loop with the Hyperliquid     *)
(*                                  constants written into the code        *)
(*   scripts/backtest_managed.py    one capital, closed near a liquidation *)
(*                                  price or on a low trailing APY         *)
(*                                                                         *)
(* The Python code computes on floats.  The model computes the same        *)
(* formulas on exact decimal numbers of unbounded length (a sign, a        *)
(* sequence of base-10^4 limbs and a count of fractional limbs), so an     *)
(* equality of the model is an equality of the real numbers the floats     *)
(* approximate.  Quotients whose divisor is not a small integer (signal    *)
(* average, liquidation prices, buffers, effective leverage) are kept as   *)
(* numerator/divisor pairs and compared by cross-multiplication.           *)
(***************************************************************************)
EXTENDS Integers, Sequences, FiniteSets, TLC

(***************************************************************************)
(* Exact decimal arithmetic.                                               *)
(***************************************************************************)
Base == 100 * 100

RECURSIVE NTrim(_)
NTrim(a) ==
    IF a = <<>> THEN a
    ELSE IF a[Len(a)] = 0 THEN NTrim(SubSeq(a, 1, Len(a) - 1)) ELSE a

Limb(a, ix) == IF ix <= Len(a) THEN a[ix] ELSE 0

RECURSIVE NAddC(_, _, _, _)
NAddC(a, b, ix, c) ==
    IF ix > Len(a) /\ ix > Len(b)
    THEN (IF c = 0 THEN <<>> ELSE <<c>>)
    ELSE LET s == Limb(a, ix) + Limb(b, ix) + c
         IN  <<s % Base>> \o NAddC(a, b, ix + 1, s \div Base)

NAdd(a, b) == NAddC(a, b, 1, 0)

RECURSIVE NSubB(_, _, _, _)
NSubB(a, b, ix, c) ==
    IF ix > Len(a) THEN <<>>
    ELSE LET s == Limb(a, ix) - Limb(b, ix) - c
         IN  IF s < 0 THEN <<s + Base>> \o NSubB(a, b, ix + 1, 1)
                      ELSE <<s>> \o NSubB(a, b, ix + 1, 0)

\* a - b for a >= b
NSub(a, b) == NTrim(NSubB(a, b, 1, 0))

RECURSIVE NCmpAt(_, _, _)
NCmpAt(a, b, ix) ==
    IF ix = 0 THEN 0
    ELSE IF a[ix] < b[ix] THEN -1
    ELSE IF a[ix] > b[ix] THEN 1
    ELSE NCmpAt(a, b, ix - 1)

\* -1, 0, 1 for trimmed a, b
NCmp(a, b) ==
    IF Len(a) < Len(b) THEN -1
    ELSE IF Len(a) > Len(b) THEN 1
    ELSE NCmpAt(a, b, Len(a))

RECURSIVE NMulSmallC(_, _, _, _)
NMulSmallC(a, d, ix, c) ==
    IF ix > Len(a) THEN (IF c = 0 THEN <<>> ELSE <<c>>)
    ELSE LET s == a[ix] * d + c
         IN  <<s % Base>> \o NMulSmallC(a, d, ix + 1, s \div Base)

RECURSIVE NMulAt(_, _, _)
NMulAt(a, b, j) ==
    IF j > Len(b) THEN <<>>
    ELSE LET rest == NMulAt(a, b, j + 1)
             hi   == IF rest = <<>> THEN <<>> ELSE <<0>> \o rest
         IN  IF b[j] = 0 THEN hi ELSE NAdd(NMulSmallC(a, b[j], 1, 0), hi)

NMul(a, b) == IF a = <<>> \/ b = <<>> THEN <<>> ELSE NTrim(NMulAt(a, b, 1))

\* <<quotient, remainder>> of a by the small integer n, from the top limb down
RECURSIVE NDivSmallAt(_, _, _, _)
NDivSmallAt(a, n, ix, r) ==
    IF ix = 0 THEN <<<<>>, r>>
    ELSE LET cur  == r * Base + a[ix]
             rest == NDivSmallAt(a, n, ix - 1, cur % n)
         IN  <<rest[1] \o <<cur \div n>>, rest[2]>>

NDivSmall(a, n) == NDivSmallAt(a, n, Len(a), 0)

Zeros(j) == [x \in 1..j |-> 0]

RECURSIVE LowZeros(_, _)
LowZeros(m, k) ==
    IF k > 0 /\ m # <<>> /\ m[1] = 0 THEN 1 + LowZeros(Tail(m), k - 1) ELSE 0

\* the canonical number (-1)^neg * m * Base^-k
Mk(neg, m, k) ==
    LET t == NTrim(m)
        z == LowZeros(t, k)
    IN  IF t = <<>> THEN [neg |-> FALSE, m |-> <<>>, k |-> 0]
        ELSE [neg |-> neg, m |-> SubSeq(t, z + 1, Len(t)), k |-> k - z]

Zero == Mk(FALSE, <<>>, 0)

RECURSIVE NOfInt(_)
NOfInt(n) == IF n = 0 THEN <<>> ELSE <<n % Base>> \o NOfInt(n \div Base)

I(n) == IF n < 0 THEN Mk(TRUE, NOfInt(-n), 0) ELSE Mk(FALSE, NOfInt(n), 0)

Neg(x) == IF x.m = <<>> THEN x ELSE [x EXCEPT !.neg = ~x.neg]

Add(x, y) ==
    LET K  == IF x.k > y.k THEN x.k ELSE y.k
        mx == IF x.m = <<>> THEN <<>> ELSE Zeros(K - x.k) \o x.m
        my == IF y.m = <<>> THEN <<>> ELSE Zeros(K - y.k) \o y.m
    IN  IF x.neg = y.neg THEN Mk(x.neg, NAdd(mx, my), K)
        ELSE IF NCmp(mx, my) >= 0 THEN Mk(x.neg, NSub(mx, my), K)
        ELSE Mk(y.neg, NSub(my, mx), K)

Sub(x, y) == Add(x, Neg(y))

Mul(x, y) == Mk(x.neg # y.neg, NMul(x.m, y.m), x.k + y.k)

Lt(x, y) == Sub(x, y).neg
Le(x, y) == ~Lt(y, x)
Gt(x, y) == Lt(y, x)
Ge(x, y) == ~Lt(x, y)
IsNeg(x) == x.neg
IsPos(x) == x.m # <<>> /\ ~x.neg

Max(x, y) == IF Lt(x, y) THEN y ELSE x
Min(x, y) == IF Lt(y, x) THEN y ELSE x
Abs(x) == IF x.neg THEN Neg(x) ELSE x

\* x / n for an integer n in 1..Base-1 whose quotient is a finite decimal
RECURSIVE DivIAt(_, _, _)
DivIAt(x, n, j) ==
    LET r == NDivSmall(Zeros(j) \o x.m, n)
    IN  IF r[2] = 0 THEN Mk(x.neg, r[1], x.k + j)
        ELSE IF j < 4 THEN DivIAt(x, n, j + 1)
        ELSE CHOOSE q \in {} : TRUE

DivI(x, n) == IF x.m = <<>> THEN x ELSE DivIAt(x, n, 0)

\* the decimal n/d for small integers n, d
Frac(n, d) == DivI(I(n), d)

\* x / y where y is a positive whole number below Base (a price, a count)
Div(x, y) == DivI(x, y.m[1])

(***************************************************************************)
(* Quotients a / b of two decimals, as the code's float divisions whose     *)
(* divisor is not a small whole number.  A zero divisor has no value (the   *)
(* code raises ZeroDivisionError); no run of the model reaches one.         *)
(***************************************************************************)
QOf(x) == [n |-> x, d |-> I(1)]
QDiv(p, q) == [n |-> Mul(p.n, q.d), d |-> Mul(p.d, q.n)]
QMul(p, q) == [n |-> Mul(p.n, q.n), d |-> Mul(p.d, q.d)]
QSub(p, q) == [n |-> Sub(Mul(p.n, q.d), Mul(q.n, p.d)), d |-> Mul(p.d, q.d)]
QAdd(p, q) == [n |-> Add(Mul(p.n, q.d), Mul(q.n, p.d)), d |-> Mul(p.d, q.d)]
\* the sign of p - q: TRUE when p < q
QLt(p, q) ==
    LET df == QSub(p, q)
    IN  IF IsPos(df.d) THEN IsNeg(df.n)
        ELSE IF IsNeg(df.d) THEN IsPos(df.n)
        ELSE CHOOSE z \in {} : TRUE
QLe(p, q) == ~QLt(q, p)
QGt(p, q) == QLt(q, p)
QEq(p, q) == ~QLt(p, q) /\ ~QLt(q, p)
QMax(p, q) == IF QLt(p, q) THEN q ELSE p

(***************************************************************************)
(* Program constants and venue configurations.                             *)
(***************************************************************************)
ASGARD_FEE_BPS == I(15)
GAS_COST == I(2)

VENUE_HL ==
    [name |-> "Hyperliquid", fee_bps |-> Frac(7, 2),
     maintenance_margin |-> Frac(5, 100),
     liq_penalty_model |-> "equity", liq_penalty_pct |-> Frac(50, 100),
     bridge_cost |-> I(3)]

VENUE_DRIFT ==
    [name |-> "Drift", fee_bps |-> Frac(7, 2),
     maintenance_margin |-> Frac(3, 100),
     liq_penalty_model |-> "notional", liq_penalty_pct |-> Frac(25, 1000),
     bridge_cost |-> Frac(1, 1000)]

(***************************************************************************)
(* Inputs.  One element of data is one date of all_dates with that date's   *)
(* entries of price_by_date, sol_by_date, usdc_by_date and the venue's      *)
(* funding_by_date.  Prices are whole dollars with factors 2 and 5 only and *)
(* the annual rates are multiples of 3.65 %, so that every division the     *)
(* code stores (by a price, by 365) is a finite decimal.                    *)
(***************************************************************************)
MaxDays == 3

Day(lo, cl, hi, lend, borrow, funding) ==
    [low |-> I(lo), close |-> I(cl), high |-> I(hi),
     lend |-> lend, borrow |-> borrow, funding |-> funding,
     dated |-> {"sol", "usdc", "funding"}]

\* the same date missing from the lookups S (sol_by_date, usdc_by_date,
\* funding_by_date)
Undated(day, S) == [day EXCEPT !.dated = @ \ S]

\* sol_by_date.get(date, {}).get("lend", 0)
LendOf(day) == IF "sol" \in day.dated THEN day.lend ELSE Zero
\* usdc_by_date.get(date, {}).get("borrow", 0)
BorrowOf(day) == IF "usdc" \in day.dated THEN day.borrow ELSE Zero
\* funding_data.get(date, 0)
FundingOf(day) == IF "funding" \in day.dated THEN day.funding ELSE Zero

\* lend 36.5 %, borrow 18.25 % (0.1 % and 0.05 % a day), funding +0.02 % / 0 /
\* -0.04 % a day.  At leverage 3 the raw net APY of RatesMid is 36.5 exactly, in
\* floats as in decimals.
RatesHigh == <<Frac(365, 10), Frac(1825, 100), Frac(2, 10000)>>
RatesMid  == <<Frac(365, 10), Frac(1825, 100), Zero>>
RatesLow  == <<Frac(365, 10), Frac(1825, 100), Frac(-4, 10000)>>

DayR(lo, cl, hi, r) == Day(lo, cl, hi, r[1], r[2], r[3])

RECURSIVE SeqsOf(_, _)
SeqsOf(S, len) ==
    IF len = 0 THEN {<<>>}
    ELSE {Append(q, e) : q \in SeqsOf(S, len - 1), e \in S}

VARIABLES
    script,             \* which script runs: "simulation", "comparison"
                        \* or "managed"
    data,               \* all_dates with the per-date lookups
    args,               \* the arguments of run_simulation
    pc,                 \* position in run_simulation
    i,                  \* index of the current day (days completed)
    state, cash,
    sol_qty, usdc_debt, short_contracts, short_entry, short_margin,
    long_eq, short_eq,
    total_fees, total_carry, total_funding, total_liq_penalty,
    opens, closes, close_reasons, deployed_days, idle_days,
    capital_rebalances, full_rotations, liquidations,
    liq_leg,
    penalty,            \* the local `penalty` of the notional-model branch
    events, daily_equity_log,
    final_capital,
    \* backtest_managed.py (it also uses liquidations and events)
    in_position, capital, position_capital, entry_price,
    long_liq_price, short_liq_price,
    total_fees_paid, total_carry_earned, total_funding_earned,
    rotations, forced_rebalances, apy_exits,
    trailing_apy, rebalance_reason, daily_equity

inputs   == <<script, data, args>>
position == <<sol_qty, usdc_debt, short_contracts, short_entry, short_margin>>
equities == <<long_eq, short_eq>>
income   == <<total_carry, total_funding>>
simCount == <<opens, closes, close_reasons, deployed_days, idle_days>>
cmpCount == <<capital_rebalances, full_rotations, liquidations, liq_leg,
              penalty, total_liq_penalty>>
logs     == <<events, daily_equity_log>>
managed  == <<in_position, capital, position_capital, entry_price,
              long_liq_price, short_liq_price, total_fees_paid,
              total_carry_earned, total_funding_earned, rotations,
              forced_rebalances, apy_exits, trailing_apy, rebalance_reason,
              daily_equity>>

vars == <<script, data, args, pc, i, state, cash, sol_qty, usdc_debt, short_contracts,
          short_entry, short_margin, long_eq, short_eq, total_fees,
          total_carry, total_funding, total_liq_penalty, opens, closes,
          close_reasons, deployed_days, idle_days, capital_rebalances,
          full_rotations, liquidations, liq_leg, penalty, events,
          daily_equity_log, final_capital, managed>>

\* lines 110-129 of backtest_managed.py: the state before its day loop, which
\* the other scripts never touch
ManagedStart ==
    /\ in_position = FALSE
    /\ entry_price = Zero
    /\ position_capital = Zero
    /\ long_liq_price = QOf(Zero) /\ short_liq_price = QOf(Zero)
    /\ total_fees_paid = Zero
    /\ total_carry_earned = Zero /\ total_funding_earned = Zero
    /\ rotations = 0 /\ forced_rebalances = 0 /\ apy_exits = 0
    /\ trailing_apy = <<>>
    /\ rebalance_reason = ""
    /\ daily_equity = <<>>

\* the current date's lookups: price_by_date[date], sol_by_date.get(date), ...
today == data[i + 1]

(***************************************************************************)
(* Pieces shared by the three scripts (the same lines appear in each).      *)
(***************************************************************************)
Half(x) == DivI(x, 2)
Bps(x, bps) == DivI(Mul(x, bps), 10000)

\* OpenFees without the gas cost
OpenFeesNoGas(notional, asgard_fee_bps, fee_bps) ==
    Add(Bps(notional, asgard_fee_bps), Bps(notional, fee_bps))

\* open_fees = notional*asgard_fee_bps/10000 + notional*fee_bps/10000 + GAS_COST
OpenFees(notional, asgard_fee_bps, fee_bps) ==
    Add(Add(Bps(notional, asgard_fee_bps), Bps(notional, fee_bps)), GAS_COST)

\* OpenPosition with the whole of the fees charged to the long leg
OpenPositionOneSided(funds, leverage, p, asgard_fee_bps, fee_bps) ==
    LET half      == Half(funds)
        notional  == Mul(half, leverage)
        open_fees == OpenFees(notional, asgard_fee_bps, fee_bps)
    IN  [notional        |-> notional,
         open_fees       |-> open_fees,
         sol_qty         |-> Div(notional, p),
         usdc_debt       |-> Add(Mul(half, Sub(leverage, I(1))), open_fees),
         short_contracts |-> Div(notional, p),
         short_entry     |-> p,
         short_margin    |-> half]

\* the two legs opened from `funds` at price p, fees taken half from each leg
OpenPosition(funds, leverage, p, asgard_fee_bps, fee_bps) ==
    LET half      == Half(funds)
        notional  == Mul(half, leverage)
        open_fees == OpenFees(notional, asgard_fee_bps, fee_bps)
    IN  [notional        |-> notional,
         open_fees       |-> open_fees,
         sol_qty         |-> Div(notional, p),
         usdc_debt       |-> Add(Mul(half, Sub(leverage, I(1))), Half(open_fees)),
         short_contracts |-> Div(notional, p),
         short_entry     |-> p,
         short_margin    |-> Sub(half, Half(open_fees))]

\* long_eq = sol_qty * price - usdc_debt
LongEq(qty, debt, p) == Sub(Mul(qty, p), debt)
\* ShortEq of a perp held long instead of short
ShortEqOfLongPerp(margin, contracts, entry, p) ==
    Add(margin, Mul(contracts, Sub(p, entry)))

\* short_eq = short_margin + short_contracts * (short_entry - price)
ShortEq(margin, contracts, entry, p) == Add(margin, Mul(contracts, Sub(entry, p)))

\* one day of lending, borrowing and funding on the position
Accrue(qty, debt, contracts, margin, day) ==
    LET sol_lend_daily  == DivI(DivI(LendOf(day), 100), 365)
        usdc_borr_daily == DivI(DivI(BorrowOf(day), 100), 365)
        sol_earned      == Mul(qty, sol_lend_daily)
        debt_increase   == Mul(debt, usdc_borr_daily)
        fund_income     == Mul(Mul(FundingOf(day), contracts), day.close)
    IN  [carry        |-> Sub(Mul(sol_earned, day.close), debt_increase),
         fund_income  |-> fund_income,
         sol_qty      |-> Add(qty, sol_earned),
         usdc_debt    |-> Add(debt, debt_increase),
         short_margin |-> Add(margin, fund_income)]

\* the drawdown loop from record k on: peak = max(peak, equity),
\* dd = (peak - equity) / peak, max_dd = max(max_dd, dd)
RECURSIVE DrawdownFrom(_, _, _, _)
DrawdownFrom(log, k, peak, max_dd) ==
    IF k > Len(log) THEN max_dd
    ELSE LET pk == Max(peak, log[k].equity)
             dd == QDiv(QOf(Sub(pk, log[k].equity)), QOf(pk))
         IN  DrawdownFrom(log, k + 1, pk, QMax(max_dd, dd))

\* DrawdownFrom that keeps the last day's drawdown, not the greatest
RECURSIVE LastDrawdownFrom(_, _, _, _)
LastDrawdownFrom(log, k, peak, max_dd) ==
    IF k > Len(log) THEN max_dd
    ELSE LET pk == Max(peak, log[k].equity)
             dd == QDiv(QOf(Sub(pk, log[k].equity)), QOf(pk))
         IN  LastDrawdownFrom(log, k + 1, pk, dd)
MaxDrawdownOfLastDay(log, initial_capital) ==
    LastDrawdownFrom(log, 1, initial_capital, QOf(Zero))

\* max_dd over a daily equity log: peak = initial_capital, max_dd = 0
MaxDrawdown(log, initial_capital) ==
    DrawdownFrom(log, 1, initial_capital, QOf(Zero))

(***************************************************************************)
(* scripts/lib/simulation.py: conditional deployment.                       *)
(***************************************************************************)
compute_net_apy(sol_lend_apy, usdc_borr_apy, funding_daily, leverage) ==
    LET funding_ann_pct == Mul(Mul(funding_daily, I(365)), I(100))
    IN  Sub(Mul(Half(leverage), Add(sol_lend_apy, funding_ann_pct)),
            Mul(Half(Sub(leverage, I(1))), usdc_borr_apy))

\* raw_apys[j], j counted from 0 as in the code
raw_apy(dat, leverage, j) ==
    compute_net_apy(LendOf(dat[j + 1]), BorrowOf(dat[j + 1]), FundingOf(dat[j + 1]),
                    leverage)

RECURSIVE SumRaw(_, _, _, _)
SumRaw(dat, leverage, from, to) ==
    IF from > to THEN Zero
    ELSE Add(raw_apy(dat, leverage, from), SumRaw(dat, leverage, from + 1, to))

WindowStart(j, lookback_days) ==
    IF j - lookback_days + 1 > 0 THEN j - lookback_days + 1 ELSE 0

\* smoothed_apy over a window centred on day j: it reads the day after j
smoothed_apy_centred(dat, leverage, lookback_days, j) ==
    LET window_start == WindowStart(j, lookback_days)
        window_end == IF j + 1 < Len(dat) THEN j + 1 ELSE j
    IN  [n |-> SumRaw(dat, leverage, window_start, window_end),
         d |-> I(window_end - window_start + 1)]

\* smoothed_apys[j] = sum(raw_apys[window_start:j+1]) / (j - window_start + 1)
smoothed_apy(dat, leverage, lookback_days, j) ==
    LET window_start == WindowStart(j, lookback_days)
    IN  [n |-> SumRaw(dat, leverage, window_start, j),
         d |-> I(j - window_start + 1)]

net_apy == smoothed_apy(data, args.target_leverage, args.lookback_days, i)

\* OpenSignal with >= for >
OpenSignalAtOrAbove(apy, apy_threshold) == QLe(QOf(apy_threshold), apy)

\* if net_apy > apy_threshold  (state IDLE)
OpenSignal(apy, apy_threshold) == QGt(apy, QOf(apy_threshold))
\* apy_below = net_apy < apy_threshold  (state DEPLOYED)
ApyBelow(apy, apy_threshold) == QLt(apy, QOf(apy_threshold))

\* LiqPriceLong as the price at which the long equity is zero
LiqPriceLongAtZeroEquity(qty, debt, maint_margin) == QDiv(QOf(debt), QOf(qty))

\* liq_price_long = usdc_debt / (sol_qty * (1 - maint_margin))
LiqPriceLong(qty, debt, maint_margin) ==
    QDiv(QOf(debt), QOf(Mul(qty, Sub(I(1), maint_margin))))
\* liq_price_short = (short_margin + short_contracts*short_entry)
\*                   / (short_contracts * (1 + maint_margin))
LiqPriceShort(margin, contracts, entry, maint_margin) ==
    QDiv(QOf(Add(margin, Mul(contracts, entry))),
         QOf(Mul(contracts, Add(I(1), maint_margin))))
\* long_buffer = (sol_close - liq_price_long) / sol_close * 100
LongBuffer(qty, debt, maint_margin, p) ==
    QMul(QDiv(QSub(QOf(p), LiqPriceLong(qty, debt, maint_margin)), QOf(p)),
         QOf(I(100)))
\* short_buffer = (liq_price_short - sol_close) / sol_close * 100
ShortBuffer(margin, contracts, entry, maint_margin, p) ==
    QMul(QDiv(QSub(LiqPriceShort(margin, contracts, entry, maint_margin), QOf(p)),
              QOf(p)),
         QOf(I(100)))
\* NearLiq that looks at the long leg only
NearLiqLongOnly(long_buffer, short_buffer, liq_buffer_pct) ==
    QLe(long_buffer, QOf(liq_buffer_pct))

\* near_liq = long_buffer <= liq_buffer_pct or short_buffer <= liq_buffer_pct
NearLiq(long_buffer, short_buffer, liq_buffer_pct) ==
    QLe(long_buffer, QOf(liq_buffer_pct)) \/ QLe(short_buffer, QOf(liq_buffer_pct))

\* CloseReason with the two reasons swapped
CloseReasonSwapped(near_liq) == IF near_liq THEN "apy" ELSE "liq_proximity"

\* reason = "liq_proximity" if near_liq else "apy"
CloseReason(near_liq) == IF near_liq THEN "liq_proximity" ELSE "apy"

\* close_fee = short_contracts * sol_close * fee_bps / 10000 + GAS_COST
CloseFee(contracts, p, fee_bps) == Add(Bps(Mul(contracts, p), fee_bps), GAS_COST)
\* the close at the end of the run charges no gas
FinalCloseFee(contracts, p, fee_bps) == Bps(Mul(contracts, p), fee_bps)

SimArgs ==
    { [initial_capital |-> I(10000), target_leverage |-> I(3), venue |-> VENUE_HL,
       apy_threshold |-> Frac(365, 10), liq_buffer_pct |-> I(10),
       lookback_days |-> 2, asgard_fee_bps |-> ASGARD_FEE_BPS,
       rebalance_lev_trigger |-> Zero],
      [initial_capital |-> I(10000), target_leverage |-> I(2), venue |-> VENUE_DRIFT,
       apy_threshold |-> I(30), liq_buffer_pct |-> I(10),
       lookback_days |-> 7, asgard_fee_bps |-> ASGARD_FEE_BPS,
       rebalance_lev_trigger |-> Zero] }

SimDays ==
    { DayR(100, 100, 100, RatesHigh), DayR(100, 100, 100, RatesMid),
      DayR(100, 100, 100, RatesLow),  DayR(64, 64, 64, RatesHigh),
      DayR(125, 125, 125, RatesMid),  DayR(64, 100, 100, RatesHigh) }

SimData == UNION {SeqsOf(SimDays, len) : len \in 1..MaxDays}

\* lines 79-124: the state before the day loop
SimInit ==
    /\ script = "simulation"
    /\ data \in SimData
    /\ args \in SimArgs
    /\ pc = "loop"
    /\ i = 0
    /\ state = "IDLE"
    /\ cash = args.initial_capital
    /\ sol_qty = Zero /\ usdc_debt = Zero /\ short_contracts = Zero
    /\ short_entry = Zero /\ short_margin = Zero
    /\ long_eq = Zero /\ short_eq = Zero
    /\ total_fees = Zero /\ total_carry = Zero /\ total_funding = Zero
    /\ total_liq_penalty = Zero
    /\ opens = 0 /\ closes = 0
    /\ close_reasons = [apy |-> 0, liq_proximity |-> 0]
    /\ deployed_days = 0 /\ idle_days = 0
    /\ capital_rebalances = 0 /\ full_rotations = 0 /\ liquidations = 0
    /\ liq_leg = "" /\ penalty = Zero
    /\ events = <<>>
    /\ daily_equity_log = <<>>
    /\ final_capital = Zero
    /\ capital = Zero /\ ManagedStart

\* lines 139-178: IDLE and the signal is above the threshold: OPEN both legs
SimOpen ==
    /\ script = "simulation"
    /\ pc = "loop" /\ i < Len(data) /\ state = "IDLE"
    /\ OpenSignal(net_apy, args.apy_threshold)
    /\ \E o \in {OpenPosition(cash, args.target_leverage, today.close,
                              args.asgard_fee_bps, args.venue.fee_bps)} :
       \E le \in {LongEq(o.sol_qty, o.usdc_debt, today.close)} :
       \E se \in {o.short_margin} :
           /\ sol_qty' = o.sol_qty
           /\ usdc_debt' = o.usdc_debt
           /\ short_contracts' = o.short_contracts
           /\ short_entry' = o.short_entry
           /\ short_margin' = o.short_margin
           /\ total_fees' = Add(total_fees, o.open_fees)
           /\ long_eq' = le
           /\ short_eq' = se
           /\ events' = Append(events,
                 [date |-> i, type |-> "OPEN", price |-> today.close,
                  long_eq |-> le, short_eq |-> se, notional |-> o.notional,
                  fees |-> o.open_fees, net_apy |-> net_apy])
           /\ daily_equity_log' = Append(daily_equity_log,
                 [date |-> i, equity |-> Add(le, se), state |-> "DEPLOYED"])
    /\ state' = "DEPLOYED"
    /\ opens' = opens + 1
    /\ deployed_days' = deployed_days + 1
    /\ i' = i + 1
    /\ UNCHANGED <<inputs, managed, pc, cash, income, closes, close_reasons, idle_days,
                   cmpCount, final_capital>>

\* SimIdle that charges the gas cost on an idle day
SimIdleCharged ==
    /\ script = "simulation"
    /\ pc = "loop" /\ i < Len(data) /\ state = "IDLE"
    /\ ~OpenSignal(net_apy, args.apy_threshold)
    /\ cash' = Sub(cash, GAS_COST)
    /\ total_fees' = Add(total_fees, GAS_COST)
    /\ daily_equity_log' = Append(daily_equity_log,
          [date |-> i, equity |-> Sub(cash, GAS_COST), state |-> "IDLE"])
    /\ idle_days' = idle_days + 1
    /\ i' = i + 1
    /\ UNCHANGED <<inputs, managed, pc, state, position, equities, income, opens, closes,
                   close_reasons, deployed_days, cmpCount, events, final_capital>>

\* lines 179-183: IDLE and the signal is not above the threshold
SimIdle ==
    /\ script = "simulation"
    /\ pc = "loop" /\ i < Len(data) /\ state = "IDLE"
    /\ ~OpenSignal(net_apy, args.apy_threshold)
    /\ daily_equity_log' = Append(daily_equity_log,
          [date |-> i, equity |-> cash, state |-> "IDLE"])
    /\ idle_days' = idle_days + 1
    /\ i' = i + 1
    /\ UNCHANGED <<inputs, managed, pc, state, cash, position, equities, total_fees,
                   income, opens, closes, close_reasons, deployed_days,
                   cmpCount, events, final_capital>>

\* lines 185-205: DEPLOYED: accrue the day's yields, derive the equities
SimAccrue ==
    /\ script = "simulation"
    /\ pc = "loop" /\ i < Len(data) /\ state = "DEPLOYED"
    /\ \E a \in {Accrue(sol_qty, usdc_debt, short_contracts, short_margin, today)} :
           /\ sol_qty' = a.sol_qty
           /\ usdc_debt' = a.usdc_debt
           /\ short_margin' = a.short_margin
           /\ total_carry' = Add(total_carry, a.carry)
           /\ total_funding' = Add(total_funding, a.fund_income)
           /\ long_eq' = LongEq(a.sol_qty, a.usdc_debt, today.close)
           /\ short_eq' = ShortEq(a.short_margin, short_contracts, short_entry,
                                  today.close)
    /\ pc' = "check"
    /\ UNCHANGED <<inputs, managed, i, state, cash, short_contracts, short_entry,
                   total_fees, simCount, cmpCount, logs, final_capital>>

long_buffer ==
    LongBuffer(sol_qty, usdc_debt, args.venue.maintenance_margin, today.close)
short_buffer ==
    ShortBuffer(short_margin, short_contracts, short_entry,
                args.venue.maintenance_margin, today.close)
near_liq == NearLiq(long_buffer, short_buffer, args.liq_buffer_pct)
apy_below == ApyBelow(net_apy, args.apy_threshold)

\* SimClose that leaves the margin of the closed short in place
SimCloseKeepsMargin ==
    /\ script = "simulation"
    /\ pc = "check"
    /\ near_liq \/ apy_below
    /\ \E close_fee \in {CloseFee(short_contracts, today.close, args.venue.fee_bps)} :
       \E total_eq \in {Sub(Add(long_eq, short_eq), close_fee)} :
       \E reason \in {CloseReason(near_liq)} :
           /\ total_fees' = Add(total_fees, close_fee)
           /\ cash' = total_eq
           /\ close_reasons' = [close_reasons EXCEPT ![reason] = @ + 1]
           /\ events' = Append(events,
                 [date |-> i, type |-> "CLOSE", reason |-> reason,
                  price |-> today.close, long_eq |-> long_eq, short_eq |-> short_eq,
                  equity_after |-> total_eq, fees |-> close_fee,
                  net_apy |-> net_apy, long_buffer |-> long_buffer,
                  short_buffer |-> short_buffer])
           /\ daily_equity_log' = Append(daily_equity_log,
                 [date |-> i, equity |-> total_eq, state |-> "IDLE"])
    /\ closes' = closes + 1
    /\ sol_qty' = Zero /\ usdc_debt' = Zero /\ short_contracts' = Zero
    /\ short_entry' = Zero /\ short_margin' = short_margin
    /\ state' = "IDLE"
    /\ idle_days' = idle_days + 1
    /\ pc' = "loop"
    /\ i' = i + 1
    /\ UNCHANGED <<inputs, managed, equities, income, opens, deployed_days, cmpCount,
                   final_capital>>

\* SimClose that does not count the close
SimCloseUncounted ==
    /\ script = "simulation"
    /\ pc = "check"
    /\ near_liq \/ apy_below
    /\ \E close_fee \in {CloseFee(short_contracts, today.close, args.venue.fee_bps)} :
       \E total_eq \in {Sub(Add(long_eq, short_eq), close_fee)} :
       \E reason \in {CloseReason(near_liq)} :
           /\ total_fees' = Add(total_fees, close_fee)
           /\ cash' = total_eq
           /\ close_reasons' = [close_reasons EXCEPT ![reason] = @ + 1]
           /\ events' = Append(events,
                 [date |-> i, type |-> "CLOSE", reason |-> reason,
                  price |-> today.close, long_eq |-> long_eq, short_eq |-> short_eq,
                  equity_after |-> total_eq, fees |-> close_fee,
                  net_apy |-> net_apy, long_buffer |-> long_buffer,
                  short_buffer |-> short_buffer])
           /\ daily_equity_log' = Append(daily_equity_log,
                 [date |-> i, equity |-> total_eq, state |-> "IDLE"])
    /\ closes' = closes
    /\ sol_qty' = Zero /\ usdc_debt' = Zero /\ short_contracts' = Zero
    /\ short_entry' = Zero /\ short_margin' = Zero
    /\ state' = "IDLE"
    /\ idle_days' = idle_days + 1
    /\ pc' = "loop"
    /\ i' = i + 1
    /\ UNCHANGED <<inputs, managed, equities, income, opens, deployed_days, cmpCount,
                   final_capital>>

\* lines 207-262: near liquidation or signal below the threshold: CLOSE both legs
SimClose ==
    /\ script = "simulation"
    /\ pc = "check"
    /\ near_liq \/ apy_below
    /\ \E close_fee \in {CloseFee(short_contracts, today.close, args.venue.fee_bps)} :
       \E total_eq \in {Sub(Add(long_eq, short_eq), close_fee)} :
       \E reason \in {CloseReason(near_liq)} :
           /\ total_fees' = Add(total_fees, close_fee)
           /\ cash' = total_eq
           /\ close_reasons' = [close_reasons EXCEPT ![reason] = @ + 1]
           /\ events' = Append(events,
                 [date |-> i, type |-> "CLOSE", reason |-> reason,
                  price |-> today.close, long_eq |-> long_eq, short_eq |-> short_eq,
                  equity_after |-> total_eq, fees |-> close_fee,
                  net_apy |-> net_apy, long_buffer |-> long_buffer,
                  short_buffer |-> short_buffer])
           /\ daily_equity_log' = Append(daily_equity_log,
                 [date |-> i, equity |-> total_eq, state |-> "IDLE"])
    /\ closes' = closes + 1
    /\ sol_qty' = Zero /\ usdc_debt' = Zero /\ short_contracts' = Zero
    /\ short_entry' = Zero /\ short_margin' = Zero
    /\ state' = "IDLE"
    /\ idle_days' = idle_days + 1
    /\ pc' = "loop"
    /\ i' = i + 1
    /\ UNCHANGED <<inputs, managed, equities, income, opens, deployed_days, cmpCount,
                   final_capital>>

\* lines 263-268: stay deployed
SimHold ==
    /\ script = "simulation"
    /\ pc = "check"
    /\ ~(near_liq \/ apy_below)
    /\ daily_equity_log' = Append(daily_equity_log,
          [date |-> i, equity |-> Add(long_eq, short_eq), state |-> "DEPLOYED"])
    /\ deployed_days' = deployed_days + 1
    /\ pc' = "loop"
    /\ i' = i + 1
    /\ UNCHANGED <<inputs, managed, state, cash, position, equities, total_fees, income,
                   opens, closes, close_reasons, idle_days, cmpCount, events,
                   final_capital>>

\* lines 270-277: after the last date; a position still open pays the close fee
SimFinish ==
    /\ script = "simulation"
    /\ pc = "loop" /\ i = Len(data)
    /\ IF state = "DEPLOYED"
       THEN \E close_fee \in {FinalCloseFee(short_contracts, data[Len(data)].close,
                                              args.venue.fee_bps)} :
                /\ total_fees' = Add(total_fees, close_fee)
                /\ final_capital' = Sub(Add(long_eq, short_eq), close_fee)
       ELSE /\ total_fees' = total_fees
            /\ final_capital' = cash
    /\ pc' = "done"
    /\ UNCHANGED <<inputs, managed, i, state, cash, position, equities, income, simCount,
                   cmpCount, logs>>

SimNext == SimOpen \/ SimIdle \/ SimAccrue \/ SimClose \/ SimHold \/ SimFinish

SpecSim == SimInit /\ [][SimNext]_vars

(***************************************************************************)
(* scripts/backtest_comparison.py: always deployed, capital rebalance and   *)
(* liquidation with a close and reopen.  scripts/backtest_rebalance.py is   *)
(* the same function with VENUE_HL's numbers written as module constants.   *)
(***************************************************************************)
\* LongLiquidated tested at the day's close instead of its low
LongLiquidatedAtClose(qty, debt, low, maint_margin) ==
    Le(Sub(Mul(qty, today.close), debt), Mul(Mul(qty, today.close), maint_margin))

\* if long_eq_at_low <= long_notional_at_low * maint_margin
LongLiquidated(qty, debt, low, maint_margin) ==
    Le(LongEq(qty, debt, low), Mul(Mul(qty, low), maint_margin))
\* if short_eq_at_high <= short_notional_at_high * maint_margin
ShortLiquidated(margin, contracts, entry, high, maint_margin) ==
    Le(ShortEq(margin, contracts, entry, high), Mul(Mul(contracts, high), maint_margin))

\* LiqLeg whose second test overwrites the first ("BOTH" is never reported)
LiqLegNoBoth(long_liq, short_liq) ==
    IF short_liq THEN "SHORT" ELSE IF long_liq THEN "LONG" ELSE ""

\* liq_leg after the two tests ("" when got_liquidated stays False)
LiqLeg(long_liq, short_liq) ==
    IF long_liq THEN (IF short_liq THEN "BOTH" ELSE "LONG")
    ELSE IF short_liq THEN "SHORT" ELSE ""

\* HL model: lose liq_penalty_pct of the remaining equity
EquityPenalty(eq, pct) ==
    [penalty |-> Max(Mul(eq, pct), Zero),
     eq      |-> Max(Mul(eq, Sub(I(1), pct)), Zero)]

\* NotionalPenalty without the cap at the leg's equity
NotionalPenaltyUncapped(eq, notional_at_liq, pct) ==
    [penalty |-> Mul(notional_at_liq, pct),
     eq      |-> Max(Sub(eq, Mul(notional_at_liq, pct)), Zero)]

\* Drift model: lose liq_penalty_pct of the notional, at most the equity
NotionalPenalty(eq, notional_at_liq, pct) ==
    LET capped == Min(Mul(notional_at_liq, pct), Max(eq, Zero))
    IN  [penalty |-> capped, eq |-> Max(Sub(eq, capped), Zero)]

LegPenalty(venue, eq, notional_at_liq) ==
    IF venue.liq_penalty_model = "equity"
    THEN EquityPenalty(eq, venue.liq_penalty_pct)
    ELSE NotionalPenalty(eq, notional_at_liq, venue.liq_penalty_pct)

\* ApplyPenalty that penalises both legs whatever the verdict
ApplyPenaltyToBothLegs(venue, leg, leq, seq, qty, contracts, p) ==
    LET lp == LegPenalty(venue, leq, Mul(qty, p))
        sp == LegPenalty(venue, seq, Mul(contracts, p))
    IN  [liq_penalty |-> Add(lp.penalty, sp.penalty),
         penalty |-> sp.penalty,
         long_eq |-> lp.eq, short_eq |-> sp.eq]

\* the penalty on the legs named by leg: liq_penalty and both equities after it
ApplyPenalty(venue, leg, leq, seq, qty, contracts, p) ==
    LET lp == IF leg \in {"LONG", "BOTH"}
              THEN LegPenalty(venue, leq, Mul(qty, p))
              ELSE [penalty |-> Zero, eq |-> leq]
        sp == IF leg \in {"SHORT", "BOTH"}
              THEN LegPenalty(venue, seq, Mul(contracts, p))
              ELSE [penalty |-> Zero, eq |-> seq]
    IN  [liq_penalty |-> Add(lp.penalty, sp.penalty),
         penalty |-> IF leg \in {"SHORT", "BOTH"} THEN sp.penalty ELSE lp.penalty,
         long_eq |-> lp.eq, short_eq |-> sp.eq]

\* reopen_fees: Asgard open + venue open on the new notional, venue close on
\* the old short notional, gas
ReopenFees(new_notional, old_short_notional, asgard_fee_bps, fee_bps) ==
    Add(Add(Add(Bps(new_notional, asgard_fee_bps), Bps(new_notional, fee_bps)),
            Bps(old_short_notional, fee_bps)),
        GAS_COST)

\* Reopen sized on the pooled equity before the reopen fees are taken off
ReopenGross(total_eq, contracts, leverage, p, asgard_fee_bps, fee_bps) ==
    LET old_short_notional == Mul(contracts, p)
        new_notional == Mul(Half(total_eq), leverage)
        reopen_fees == ReopenFees(new_notional, old_short_notional,
                                  asgard_fee_bps, fee_bps)
        new_half == Half(total_eq)
    IN  [reopen_fees     |-> reopen_fees,
         notional        |-> Mul(new_half, leverage),
         sol_qty         |-> Div(Mul(new_half, leverage), p),
         usdc_debt       |-> Add(Mul(new_half, Sub(leverage, I(1))), Half(reopen_fees)),
         short_contracts |-> Div(Mul(new_half, leverage), p),
         short_entry     |-> p,
         short_margin    |-> Sub(new_half, Half(reopen_fees))]

\* the position rebuilt at price p from the pooled equity total_eq
Reopen(total_eq, contracts, leverage, p, asgard_fee_bps, fee_bps) ==
    LET old_short_notional == Mul(contracts, p)
        new_notional == Mul(Half(total_eq), leverage)
        reopen_fees == ReopenFees(new_notional, old_short_notional,
                                  asgard_fee_bps, fee_bps)
        new_half == Half(Sub(total_eq, reopen_fees))
    IN  [reopen_fees     |-> reopen_fees,
         notional        |-> Mul(new_half, leverage),
         sol_qty         |-> Div(Mul(new_half, leverage), p),
         usdc_debt       |-> Mul(new_half, Sub(leverage, I(1))),
         short_contracts |-> Div(Mul(new_half, leverage), p),
         short_entry     |-> p,
         short_margin    |-> new_half]

\* if rebalance_lev_trigger <= 0: rebalance_lev_trigger = target_leverage * 2
RebalanceTrigger(rebalance_lev_trigger, leverage) ==
    IF Le(rebalance_lev_trigger, Zero) THEN Mul(leverage, I(2))
    ELSE rebalance_lev_trigger

\* eff_lev = notional_now / max(eq, 1) if eq > 0 else 999
EffLev(notional_now, eq) ==
    IF Gt(eq, Zero) THEN QDiv(QOf(notional_now), QOf(Max(eq, I(1))))
    ELSE QOf(I(999))

\* transfer > 5
MinTransfer == I(5)
WorthBridging(transfer) == Gt(transfer, MinTransfer)

\* Rebalance with the whole bridge cost taken from the short margin
RebalanceUnsplit(leq, seq, debt, margin, bridge_cost) ==
    LET target_eq == Half(Add(leq, seq))
        toLong == Lt(leq, target_eq)
        add == IF toLong THEN Sub(target_eq, leq) ELSE Sub(target_eq, seq)
    IN  [transfer     |-> Abs(Sub(leq, target_eq)),
         usdc_debt    |-> IF toLong THEN Sub(debt, add) ELSE Add(debt, add),
         short_margin |-> Sub(IF toLong THEN Sub(margin, add) ELSE Add(margin, add),
                              bridge_cost)]

\* debt and margin after moving capital between the legs and paying the bridge
Rebalance(leq, seq, debt, margin, bridge_cost) ==
    LET target_eq == Half(Add(leq, seq))
        toLong == Lt(leq, target_eq)
        add == IF toLong THEN Sub(target_eq, leq) ELSE Sub(target_eq, seq)
        debt1 == IF toLong THEN Sub(debt, add) ELSE Add(debt, add)
        margin1 == IF toLong THEN Sub(margin, add) ELSE Add(margin, add)
    IN  [transfer     |-> Abs(Sub(leq, target_eq)),
         usdc_debt    |-> Add(debt1, Half(bridge_cost)),
         short_margin |-> Sub(margin1, Half(bridge_cost))]

CmpArgs ==
    { [initial_capital |-> I(10000), target_leverage |-> I(3), venue |-> VENUE_HL,
       apy_threshold |-> Zero, liq_buffer_pct |-> Zero, lookback_days |-> 0,
       asgard_fee_bps |-> ASGARD_FEE_BPS, rebalance_lev_trigger |-> Zero],
      [initial_capital |-> I(10000), target_leverage |-> I(2), venue |-> VENUE_DRIFT,
       apy_threshold |-> Zero, liq_buffer_pct |-> Zero, lookback_days |-> 0,
       asgard_fee_bps |-> ASGARD_FEE_BPS, rebalance_lev_trigger |-> I(2)],
      \* a capital that one liquidation brings below the reopen fees
      [initial_capital |-> I(5), target_leverage |-> I(3), venue |-> VENUE_HL,
       apy_threshold |-> Zero, liq_buffer_pct |-> Zero, lookback_days |-> 0,
       asgard_fee_bps |-> ASGARD_FEE_BPS, rebalance_lev_trigger |-> Zero] }

\* candles of the first date (the position opens at its close)
CmpFirstDays ==
    { DayR(100, 100, 100, RatesHigh), DayR(125, 125, 125, RatesMid) }

\* a low, a close or a high that breaches a leg opened at 100 or 125, and
\* candles of the first date met again later
CmpDays ==
    CmpFirstDays \cup
    { DayR(64, 100, 100, RatesMid),  DayR(64, 64, 64, RatesHigh),
      DayR(50, 50, 50, RatesMid),    DayR(100, 100, 200, RatesHigh),
      DayR(64, 100, 200, RatesLow) }

CmpData ==
    {<<f>> \o rest : f \in CmpFirstDays,
                     rest \in UNION {SeqsOf(CmpDays, len) : len \in 0..(MaxDays - 1)}}

\* the call of run_simulation(initial_capital, target_leverage, venue, ...)
CmpInit ==
    /\ script = "comparison"
    /\ data \in CmpData
    /\ args \in CmpArgs
    /\ pc = "open"
    /\ i = 0
    /\ state = "DEPLOYED"
    /\ cash = args.initial_capital
    /\ sol_qty = Zero /\ usdc_debt = Zero /\ short_contracts = Zero
    /\ short_entry = Zero /\ short_margin = Zero
    /\ long_eq = Zero /\ short_eq = Zero
    /\ total_fees = Zero /\ total_carry = Zero /\ total_funding = Zero
    /\ total_liq_penalty = Zero
    /\ opens = 0 /\ closes = 0
    /\ close_reasons = [apy |-> 0, liq_proximity |-> 0]
    /\ deployed_days = 0 /\ idle_days = 0
    /\ capital_rebalances = 0 /\ full_rotations = 0 /\ liquidations = 0
    /\ liq_leg = "" /\ penalty = Zero
    /\ events = <<>>
    /\ daily_equity_log = <<>>
    /\ final_capital = Zero
    /\ capital = Zero /\ ManagedStart

\* lines 113-159: open both legs at the first date's close
CmpOpen ==
    /\ script = "comparison"
    /\ pc = "open"
    /\ \E p0 \in {data[1].close} :
       \E o \in {OpenPosition(args.initial_capital, args.target_leverage, p0,
                              args.asgard_fee_bps, args.venue.fee_bps)} :
       \E le \in {LongEq(o.sol_qty, o.usdc_debt, p0)} :
       \E se \in {o.short_margin} :
           /\ sol_qty' = o.sol_qty
           /\ usdc_debt' = o.usdc_debt
           /\ short_contracts' = o.short_contracts
           /\ short_entry' = o.short_entry
           /\ short_margin' = o.short_margin
           /\ total_fees' = o.open_fees
           /\ long_eq' = le
           /\ short_eq' = se
           /\ events' = Append(events,
                 [date |-> 0, type |-> "OPEN", price |-> p0,
                  long_eq |-> le, short_eq |-> se, notional |-> o.notional,
                  fees |-> o.open_fees])
    /\ pc' = "loop"
    /\ UNCHANGED <<inputs, managed, i, state, cash, income, simCount, cmpCount,
                   daily_equity_log, final_capital>>

\* CmpAccrue with the equities derived before the day's yield is added
CmpAccrueStaleEquity ==
    /\ script = "comparison"
    /\ pc = "loop" /\ i < Len(data)
    /\ \E a \in {Accrue(sol_qty, usdc_debt, short_contracts, short_margin, today)} :
           /\ sol_qty' = a.sol_qty
           /\ usdc_debt' = a.usdc_debt
           /\ short_margin' = a.short_margin
           /\ total_carry' = Add(total_carry, a.carry)
           /\ total_funding' = Add(total_funding, a.fund_income)
           /\ long_eq' = LongEq(sol_qty, usdc_debt, today.close)
           /\ short_eq' = ShortEq(short_margin, short_contracts, short_entry,
                                  today.close)
    /\ pc' = "check"
    /\ UNCHANGED <<inputs, managed, i, state, cash, short_contracts, short_entry,
                   total_fees, simCount, cmpCount, logs, final_capital>>

\* CmpAccrue with the funding compounded into the contracts, not the margin
CmpAccrueCompounding ==
    /\ script = "comparison"
    /\ pc = "loop" /\ i < Len(data)
    /\ \E a \in {Accrue(sol_qty, usdc_debt, short_contracts, short_margin, today)} :
       \E sc \in {Add(short_contracts, Mul(short_contracts, FundingOf(today)))} :
           /\ sol_qty' = a.sol_qty
           /\ usdc_debt' = a.usdc_debt
           /\ short_contracts' = sc
           /\ total_carry' = Add(total_carry, a.carry)
           /\ total_funding' = Add(total_funding, a.fund_income)
           /\ long_eq' = LongEq(a.sol_qty, a.usdc_debt, today.close)
           /\ short_eq' = ShortEq(short_margin, sc, short_entry, today.close)
    /\ pc' = "check"
    /\ UNCHANGED <<inputs, managed, i, state, cash, short_margin, short_entry,
                   total_fees, simCount, cmpCount, logs, final_capital>>

\* lines 162-189: the day's yield, then the equities at the close
CmpAccrue ==
    /\ script = "comparison"
    /\ pc = "loop" /\ i < Len(data)
    /\ \E a \in {Accrue(sol_qty, usdc_debt, short_contracts, short_margin, today)} :
           /\ sol_qty' = a.sol_qty
           /\ usdc_debt' = a.usdc_debt
           /\ short_margin' = a.short_margin
           /\ total_carry' = Add(total_carry, a.carry)
           /\ total_funding' = Add(total_funding, a.fund_income)
           /\ long_eq' = LongEq(a.sol_qty, a.usdc_debt, today.close)
           /\ short_eq' = ShortEq(a.short_margin, short_contracts, short_entry,
                                  today.close)
    /\ pc' = "check"
    /\ UNCHANGED <<inputs, managed, i, state, cash, short_contracts, short_entry,
                   total_fees, simCount, cmpCount, logs, final_capital>>

\* lines 191-206: the intraday liquidation test on the day's low and high
long_liquidated ==
    LongLiquidated(sol_qty, usdc_debt, today.low, args.venue.maintenance_margin)
short_liquidated ==
    ShortLiquidated(short_margin, short_contracts, short_entry, today.high,
                    args.venue.maintenance_margin)
got_liquidated == LiqLeg(long_liquidated, short_liquidated) # ""

\* lines 208-242: the penalty and the LIQUIDATION event
CmpLiquidate ==
    /\ script = "comparison"
    /\ pc = "check"
    /\ got_liquidated
    /\ \E leg \in {LiqLeg(long_liquidated, short_liquidated)} :
       \E pen \in {ApplyPenalty(args.venue, leg, long_eq, short_eq, sol_qty,
                                short_contracts, today.close)} :
           /\ liq_leg' = leg
           /\ penalty' = IF args.venue.liq_penalty_model = "equity"
                         THEN penalty ELSE pen.penalty
           /\ long_eq' = pen.long_eq
           /\ short_eq' = pen.short_eq
           /\ total_liq_penalty' = Add(total_liq_penalty, pen.liq_penalty)
           /\ events' = Append(events,
                 [date |-> i, type |-> "LIQUIDATION", leg |-> leg,
                  price |-> today.close, penalty |-> pen.liq_penalty,
                  long_eq |-> pen.long_eq, short_eq |-> pen.short_eq])
    /\ liquidations' = liquidations + 1
    /\ pc' = "reopen"
    /\ UNCHANGED <<inputs, managed, i, state, cash, position, total_fees, income, simCount,
                   capital_rebalances, full_rotations, daily_equity_log,
                   final_capital>>

\* lines 244-275 and 315-316: close, reopen at the close price, record the day
CmpReopen ==
    /\ script = "comparison"
    /\ pc = "reopen"
    /\ \E sol_close \in {today.close} :
       \E r \in {Reopen(Add(long_eq, short_eq), short_contracts,
                        args.target_leverage, sol_close, args.asgard_fee_bps,
                        args.venue.fee_bps)} :
       \E le \in {LongEq(r.sol_qty, r.usdc_debt, sol_close)} :
       \E se \in {r.short_margin} :
           /\ total_fees' = Add(total_fees, r.reopen_fees)
           /\ sol_qty' = r.sol_qty
           /\ usdc_debt' = r.usdc_debt
           /\ short_contracts' = r.short_contracts
           /\ short_entry' = r.short_entry
           /\ short_margin' = r.short_margin
           /\ long_eq' = le
           /\ short_eq' = se
           /\ events' = Append(events,
                 [date |-> i, type |-> "REOPEN_AFTER_LIQ", price |-> sol_close,
                  long_eq |-> le, short_eq |-> se, notional |-> r.notional,
                  fees |-> r.reopen_fees])
           /\ daily_equity_log' = Append(daily_equity_log,
                 [date |-> i, equity |-> Add(le, se)])
    /\ full_rotations' = full_rotations + 1
    /\ pc' = "loop"
    /\ i' = i + 1
    /\ UNCHANGED <<inputs, managed, state, cash, income, simCount, capital_rebalances,
                   liquidations, liq_leg, penalty, total_liq_penalty,
                   final_capital>>

\* lines 277-283: the rebalance trigger on the effective leverages at the close
eff_lev_long == EffLev(Mul(sol_qty, today.close), long_eq)
eff_lev_short == EffLev(Mul(short_contracts, today.close), short_eq)
rebalance_triggered ==
    LET trigger == QOf(RebalanceTrigger(args.rebalance_lev_trigger,
                                        args.target_leverage))
    IN  QGt(eff_lev_long, trigger) \/ QGt(eff_lev_short, trigger)

\* lines 283-316: move capital between the legs, pay the bridge, record the day
CmpRebalance ==
    /\ script = "comparison"
    /\ pc = "check"
    /\ ~got_liquidated
    /\ rebalance_triggered
    /\ \E sol_close \in {today.close} :
       \E rb \in {Rebalance(long_eq, short_eq, usdc_debt, short_margin,
                            args.venue.bridge_cost)} :
       \E le \in {LongEq(sol_qty, rb.usdc_debt, sol_close)} :
       \E se \in {ShortEq(rb.short_margin, short_contracts, short_entry, sol_close)} :
           /\ WorthBridging(rb.transfer)
           /\ usdc_debt' = rb.usdc_debt
           /\ short_margin' = rb.short_margin
           /\ total_fees' = Add(total_fees, args.venue.bridge_cost)
           /\ long_eq' = le
           /\ short_eq' = se
           /\ events' = Append(events,
                 [date |-> i, type |-> "CAPITAL_REBALANCE", price |-> sol_close,
                  transfer |-> rb.transfer, long_eq |-> le, short_eq |-> se,
                  eff_lev_before |-> QMax(eff_lev_long, eff_lev_short),
                  fee |-> args.venue.bridge_cost])
           /\ daily_equity_log' = Append(daily_equity_log,
                 [date |-> i, equity |-> Add(le, se)])
    /\ capital_rebalances' = capital_rebalances + 1
    /\ liq_leg' = ""
    /\ pc' = "loop"
    /\ i' = i + 1
    /\ UNCHANGED <<inputs, managed, state, cash, sol_qty, short_contracts, short_entry,
                   income, simCount, full_rotations, liquidations, penalty,
                   total_liq_penalty, final_capital>>

\* lines 283-288, 315-316: triggered, but the transfer is not above $5
CmpRebalanceSkipped ==
    /\ script = "comparison"
    /\ pc = "check"
    /\ ~got_liquidated
    /\ rebalance_triggered
    /\ ~WorthBridging(Rebalance(long_eq, short_eq, usdc_debt, short_margin,
                                args.venue.bridge_cost).transfer)
    /\ daily_equity_log' = Append(daily_equity_log,
          [date |-> i, equity |-> Add(long_eq, short_eq)])
    /\ liq_leg' = ""
    /\ pc' = "loop"
    /\ i' = i + 1
    /\ UNCHANGED <<inputs, managed, state, cash, position, equities, total_fees, income,
                   simCount, capital_rebalances, full_rotations, liquidations,
                   penalty, total_liq_penalty, events, final_capital>>

\* lines 276-283, 315-316: no liquidation and no leg above the trigger
CmpHold ==
    /\ script = "comparison"
    /\ pc = "check"
    /\ ~got_liquidated
    /\ ~rebalance_triggered
    /\ daily_equity_log' = Append(daily_equity_log,
          [date |-> i, equity |-> Add(long_eq, short_eq)])
    /\ liq_leg' = ""
    /\ pc' = "loop"
    /\ i' = i + 1
    /\ UNCHANGED <<inputs, managed, state, cash, position, equities, total_fees, income,
                   simCount, capital_rebalances, full_rotations, liquidations,
                   penalty, total_liq_penalty, events, final_capital>>

\* lines 318-323: the close fee of the short leg at the last date's close
CmpFinish ==
    /\ script = "comparison"
    /\ pc = "loop" /\ i = Len(data)
    /\ \E close_fee \in {FinalCloseFee(short_contracts, data[Len(data)].close,
                                         args.venue.fee_bps)} :
           /\ total_fees' = Add(total_fees, close_fee)
           /\ final_capital' = Sub(Add(long_eq, short_eq), close_fee)
    /\ pc' = "done"
    /\ UNCHANGED <<inputs, managed, i, state, cash, position, equities, income, simCount,
                   cmpCount, logs>>

CmpNext ==
    \/ CmpOpen \/ CmpAccrue \/ CmpLiquidate \/ CmpReopen
    \/ CmpRebalance \/ CmpRebalanceSkipped \/ CmpHold \/ CmpFinish

SpecCmp == CmpInit /\ [][CmpNext]_vars

(***************************************************************************)
(* backtest_comparison.py called with a configuration the specification     *)
(* calls an error: a venue whose liq_penalty_model is neither "equity" nor  *)
(* "notional", a target leverage of 1, a negative initial capital.          *)
(***************************************************************************)
VenueUnknownModel == [VENUE_DRIFT EXCEPT !.liq_penalty_model = "tiered"]

CfgArgs ==
    { [initial_capital |-> I(10000), target_leverage |-> I(3),
       venue |-> VenueUnknownModel,
       apy_threshold |-> Zero, liq_buffer_pct |-> Zero, lookback_days |-> 0,
       asgard_fee_bps |-> ASGARD_FEE_BPS, rebalance_lev_trigger |-> Zero],
      [initial_capital |-> I(5), target_leverage |-> I(1), venue |-> VENUE_HL,
       apy_threshold |-> Zero, liq_buffer_pct |-> Zero, lookback_days |-> 0,
       asgard_fee_bps |-> ASGARD_FEE_BPS, rebalance_lev_trigger |-> Zero],
      [initial_capital |-> I(-10000), target_leverage |-> I(3), venue |-> VENUE_HL,
       apy_threshold |-> Zero, liq_buffer_pct |-> Zero, lookback_days |-> 0,
       asgard_fee_bps |-> ASGARD_FEE_BPS, rebalance_lev_trigger |-> Zero] }

\* the call of run_simulation with one of these configurations: nothing in
\* lines 102-159 looks at the arguments before the position is opened
CfgInit ==
    /\ script = "comparison"
    /\ data \in CmpData
    /\ args \in CfgArgs
    /\ pc = "open"
    /\ i = 0
    /\ state = "DEPLOYED"
    /\ cash = args.initial_capital
    /\ sol_qty = Zero /\ usdc_debt = Zero /\ short_contracts = Zero
    /\ short_entry = Zero /\ short_margin = Zero
    /\ long_eq = Zero /\ short_eq = Zero
    /\ total_fees = Zero /\ total_carry = Zero /\ total_funding = Zero
    /\ total_liq_penalty = Zero
    /\ opens = 0 /\ closes = 0
    /\ close_reasons = [apy |-> 0, liq_proximity |-> 0]
    /\ deployed_days = 0 /\ idle_days = 0
    /\ capital_rebalances = 0 /\ full_rotations = 0 /\ liquidations = 0
    /\ liq_leg = "" /\ penalty = Zero
    /\ events = <<>>
    /\ daily_equity_log = <<>>
    /\ final_capital = Zero
    /\ capital = Zero /\ ManagedStart

SpecCfg == CfgInit /\ [][CmpNext]_vars

(***************************************************************************)
(* simulation.py on data in which a date of all_dates is missing from       *)
(* sol_by_date, usdc_by_date or the venue's funding_by_date.                *)
(***************************************************************************)
GapDays ==
    { Undated(DayR(100, 100, 100, RatesHigh), {"sol"}),
      Undated(DayR(100, 100, 100, RatesHigh), {"sol", "usdc", "funding"}),
      Undated(DayR(64, 64, 64, RatesHigh), {"funding"}) }

GapData == UNION {SeqsOf(SimDays \cup GapDays, len) : len \in 1..MaxDays}

\* lines 79-124 on such data: the lookups of lines 91-93 fall back to 0
GapInit ==
    /\ script = "simulation"
    /\ data \in GapData
    /\ args \in SimArgs
    /\ pc = "loop"
    /\ i = 0
    /\ state = "IDLE"
    /\ cash = args.initial_capital
    /\ sol_qty = Zero /\ usdc_debt = Zero /\ short_contracts = Zero
    /\ short_entry = Zero /\ short_margin = Zero
    /\ long_eq = Zero /\ short_eq = Zero
    /\ total_fees = Zero /\ total_carry = Zero /\ total_funding = Zero
    /\ total_liq_penalty = Zero
    /\ opens = 0 /\ closes = 0
    /\ close_reasons = [apy |-> 0, liq_proximity |-> 0]
    /\ deployed_days = 0 /\ idle_days = 0
    /\ capital_rebalances = 0 /\ full_rotations = 0 /\ liquidations = 0
    /\ liq_leg = "" /\ penalty = Zero
    /\ events = <<>>
    /\ daily_equity_log = <<>>
    /\ final_capital = Zero
    /\ capital = Zero /\ ManagedStart

SpecGap == GapInit /\ [][SimNext]_vars

(***************************************************************************)
(* The scripts on dates whose lending, borrowing and funding rates are all  *)
(* zero, at closes that move by 2.4 % (128/125: no liquidation and no       *)
(* rebalance at leverage 3) or by enough to liquidate or rebalance.  A      *)
(* position is rebuilt at a close of 128 only: rebuilt at 125, its leverage *)
(* at a close of 100 is the trigger 6 exactly, which the floats of the code *)
(* round to one side or the other.                                          *)
(***************************************************************************)
ZeroRates == <<Zero, Zero, Zero>>

ZeroCmpFirstDays ==
    { DayR(125, 125, 125, ZeroRates), DayR(128, 128, 128, ZeroRates) }

ZeroCmpDays ==
    { DayR(125, 125, 125, ZeroRates), DayR(125, 128, 128, ZeroRates),
      DayR(128, 128, 128, ZeroRates), DayR(100, 100, 100, ZeroRates),
      DayR(80, 128, 128, ZeroRates),  DayR(128, 128, 200, ZeroRates) }

ZeroCmpData ==
    {<<f>> \o rest : f \in ZeroCmpFirstDays,
                     rest \in UNION {SeqsOf(ZeroCmpDays, len) : len \in 0..(MaxDays - 1)}}

\* simulation.py with a threshold of 0: a date with rates opens the position,
\* dates without rates keep it
ZeroSimArgs == {[a EXCEPT !.apy_threshold = Zero] : a \in SimArgs}

ZeroSimDays ==
    { DayR(125, 125, 125, RatesHigh), DayR(125, 125, 125, ZeroRates),
      DayR(125, 128, 128, ZeroRates), DayR(128, 128, 128, ZeroRates),
      DayR(80, 80, 80, ZeroRates) }

ZeroSimData == UNION {SeqsOf(ZeroSimDays, len) : len \in 1..MaxDays}

\* the call of either run_simulation on such data
ZeroInit ==
    /\ \/ /\ script = "simulation"
          /\ data \in ZeroSimData
          /\ args \in ZeroSimArgs
          /\ pc = "loop"
          /\ state = "IDLE"
       \/ /\ script = "comparison"
          /\ data \in ZeroCmpData
          /\ args \in CmpArgs
          /\ pc = "open"
          /\ state = "DEPLOYED"
    /\ i = 0
    /\ cash = args.initial_capital
    /\ sol_qty = Zero /\ usdc_debt = Zero /\ short_contracts = Zero
    /\ short_entry = Zero /\ short_margin = Zero
    /\ long_eq = Zero /\ short_eq = Zero
    /\ total_fees = Zero /\ total_carry = Zero /\ total_funding = Zero
    /\ total_liq_penalty = Zero
    /\ opens = 0 /\ closes = 0
    /\ close_reasons = [apy |-> 0, liq_proximity |-> 0]
    /\ deployed_days = 0 /\ idle_days = 0
    /\ capital_rebalances = 0 /\ full_rotations = 0 /\ liquidations = 0
    /\ liq_leg = "" /\ penalty = Zero
    /\ events = <<>>
    /\ daily_equity_log = <<>>
    /\ final_capital = Zero
    /\ capital = Zero /\ ManagedStart

SpecZero == ZeroInit /\ [][SimNext \/ CmpNext]_vars

(***************************************************************************)
(* The scripts on candles whose low, close and high are the same price on   *)
(* every date, at any of the rate profiles, and backtest_comparison.py also *)
(* with a capital that the opening fees bring to the maintenance margin.    *)
(***************************************************************************)
FlatDays ==
    { DayR(100, 100, 100, RatesHigh), DayR(100, 100, 100, RatesMid),
      DayR(100, 100, 100, RatesLow) }

FlatData == UNION {SeqsOf(FlatDays, len) : len \in 1..MaxDays}

FlatCmpArgs ==
    CmpArgs \cup
    { [initial_capital |-> Frac(22, 10), target_leverage |-> I(3), venue |-> VENUE_HL,
       apy_threshold |-> Zero, liq_buffer_pct |-> Zero, lookback_days |-> 0,
       asgard_fee_bps |-> ASGARD_FEE_BPS, rebalance_lev_trigger |-> Zero] }

\* the call of either run_simulation on such data
FlatInit ==
    /\ \/ /\ script = "simulation"
          /\ args \in SimArgs
          /\ pc = "loop"
          /\ state = "IDLE"
       \/ /\ script = "comparison"
          /\ args \in FlatCmpArgs
          /\ pc = "open"
          /\ state = "DEPLOYED"
    /\ data \in FlatData
    /\ i = 0
    /\ cash = args.initial_capital
    /\ sol_qty = Zero /\ usdc_debt = Zero /\ short_contracts = Zero
    /\ short_entry = Zero /\ short_margin = Zero
    /\ long_eq = Zero /\ short_eq = Zero
    /\ total_fees = Zero /\ total_carry = Zero /\ total_funding = Zero
    /\ total_liq_penalty = Zero
    /\ opens = 0 /\ closes = 0
    /\ close_reasons = [apy |-> 0, liq_proximity |-> 0]
    /\ deployed_days = 0 /\ idle_days = 0
    /\ capital_rebalances = 0 /\ full_rotations = 0 /\ liquidations = 0
    /\ liq_leg = "" /\ penalty = Zero
    /\ events = <<>>
    /\ daily_equity_log = <<>>
    /\ final_capital = Zero
    /\ capital = Zero /\ ManagedStart

SpecFlat == FlatInit /\ [][SimNext \/ CmpNext]_vars

(***************************************************************************)
(* scripts/backtest_managed.py: one capital, a position closed on the day   *)
(* a leg comes near its liquidation price or the trailing APY is low, and    *)
(* opened again on the next date.  The reasons are modelled by their tags;  *)
(* the code appends the formatted numbers.                                  *)
(***************************************************************************)
HL_FEE_BPS == Frac(35, 10)
MAINTENANCE_MARGIN == Frac(5, 100)
\* the length of the trailing window (lines 186 and 220)
TrailingDays == 7
\* if capital > 100
MinViableCapital == I(100)
\* liq_penalty = position_capital * 0.05
ManagedLiqPenaltyPct == Frac(5, 100)

\* lines 104-107: asgard + hl (open + close) + GAS_COST
calc_fees(notional) ==
    Add(Add(Bps(notional, ASGARD_FEE_BPS), Mul(Bps(notional, HL_FEE_BPS), I(2))),
        GAS_COST)

\* long_liq_price = entry_price * (1 - (1 - MAINTENANCE_MARGIN) / leverage)
LongLiqPriceOf(entry, leverage) ==
    QMul(QOf(entry),
         QSub(QOf(I(1)), QDiv(QOf(Sub(I(1), MAINTENANCE_MARGIN)), QOf(leverage))))
\* short_liq_price = entry_price * (1 + (1 - MAINTENANCE_MARGIN) / leverage)
ShortLiqPriceOf(entry, leverage) ==
    QMul(QOf(entry),
         QAdd(QOf(I(1)), QDiv(QOf(Sub(I(1), MAINTENANCE_MARGIN)), QOf(leverage))))

\* lines 167-176: the day's carry and funding on the position's capital
ManagedYield(pos_capital, leverage, day) ==
    LET coll        == Half(pos_capital)
        notional    == Mul(coll, leverage)
        sol_lend    == DivI(DivI(LendOf(day), 100), 365)
        usdc_borr   == DivI(DivI(BorrowOf(day), 100), 365)
        carry       == Sub(Mul(notional, sol_lend),
                           Mul(Sub(notional, coll), usdc_borr))
        fund_income == Mul(FundingOf(day), notional)
    IN  [carry |-> carry, fund_income |-> fund_income,
         daily_return |-> Add(carry, fund_income)]

\* line 184, position_capital being the value after the day's return
DailyReturnPct(daily_return, pos_capital) ==
    IF Gt(pos_capital, daily_return)
    THEN QDiv(QOf(daily_return), QOf(Sub(pos_capital, daily_return)))
    ELSE QOf(Zero)

\* lines 185-187: append, and drop the oldest beyond seven
Trail(t, x) ==
    LET a == Append(t, x) IN IF Len(a) > TrailingDays THEN Tail(a) ELSE a

RECURSIVE QSum(_)
QSum(t) == IF t = <<>> THEN QOf(Zero) ELSE QAdd(t[1], QSum(Tail(t)))

\* avg_daily * 365 * 100
TrailingAnnual(t) == QMul(QDiv(QSum(t), QOf(I(Len(t)))), QOf(I(36500)))

NoRebalance == [need_rebalance |-> FALSE, rebalance_reason |-> "",
                liquidations |-> 0, apy_exits |-> 0]

\* lines 196-206: the long leg against the day's low
LongLegCheck(r, check_low, trigger) ==
    IF QLe(QOf(check_low), long_liq_price)
    THEN [r EXCEPT !.liquidations = @ + 1, !.need_rebalance = TRUE,
                   !.rebalance_reason = "LIQUIDATION_LONG"]
    ELSE IF QGt(long_liq_price, QOf(Zero))
            /\ QLt(QDiv(QSub(QOf(check_low), long_liq_price), QOf(check_low)),
                   QOf(trigger))
    THEN [r EXCEPT !.need_rebalance = TRUE, !.rebalance_reason = "MARGIN_LONG"]
    ELSE r

\* lines 208-217: the short leg against the day's high
ShortLegCheck(r, check_high, trigger) ==
    IF QLe(short_liq_price, QOf(check_high))
    THEN [r EXCEPT !.liquidations = @ + 1, !.need_rebalance = TRUE,
                   !.rebalance_reason = "LIQUIDATION_SHORT"]
    ELSE IF QGt(short_liq_price, QOf(Zero))
            /\ QLt(QDiv(QSub(short_liq_price, QOf(check_high)), QOf(check_high)),
                   QOf(trigger))
    THEN [r EXCEPT !.need_rebalance = TRUE, !.rebalance_reason = "MARGIN_SHORT"]
    ELSE r

\* lines 219-226: the trailing APY against min_apy_threshold
ApyCheck(r, t, min_apy_threshold) ==
    IF /\ Gt(min_apy_threshold, Zero)
       /\ Len(t) >= TrailingDays
       /\ QLt(TrailingAnnual(t), QOf(min_apy_threshold))
    THEN [r EXCEPT !.need_rebalance = TRUE, !.rebalance_reason = "LOW_APY",
                   !.apy_exits = @ + 1]
    ELSE r

\* if "LIQUIDATION" in rebalance_reason
NamesLiquidation(reason) == reason \in {"LIQUIDATION_LONG", "LIQUIDATION_SHORT"}

\* lines 166-226 on the current date: the yield, then the three checks in order
ManagedDay ==
    LET y    == ManagedYield(position_capital, args.leverage, today)
        pcap == Add(position_capital, y.daily_return)
        t    == Trail(trailing_apy, DailyReturnPct(y.daily_return, pcap))
        check_low  == IF args.use_intraday THEN today.low ELSE today.close
        check_high == IF args.use_intraday THEN today.high ELSE today.close
        r1 == LongLegCheck(NoRebalance, check_low, args.liq_distance_trigger)
        r2 == ShortLegCheck(r1, check_high, args.liq_distance_trigger)
        r3 == ApyCheck(r2, t, args.min_apy_threshold)
    IN  [carry |-> y.carry, fund_income |-> y.fund_income,
         capital |-> Add(capital, y.daily_return), position_capital |-> pcap,
         trailing_apy |-> t, need_rebalance |-> r3.need_rebalance,
         rebalance_reason |-> r3.rebalance_reason,
         liquidations |-> r3.liquidations, apy_exits |-> r3.apy_exits]

\* what backtest_managed.py leaves alone
unmanaged == <<state, cash, position, equities, total_fees, income, simCount,
               capital_rebalances, full_rotations, liq_leg, penalty,
               total_liq_penalty, daily_equity_log>>

ManagedArgs ==
    { [initial_capital |-> I(1000), leverage |-> I(3),
       liq_distance_trigger |-> Frac(10, 100), min_apy_threshold |-> Zero,
       use_intraday |-> TRUE],
      [initial_capital |-> I(1000), leverage |-> I(3),
       liq_distance_trigger |-> Frac(10, 100), min_apy_threshold |-> I(30),
       use_intraday |-> TRUE],
      [initial_capital |-> I(1000), leverage |-> I(2),
       liq_distance_trigger |-> Zero, min_apy_threshold |-> Zero,
       use_intraday |-> FALSE],
      \* below the minimum viable capital
      [initial_capital |-> I(100), leverage |-> I(3),
       liq_distance_trigger |-> Frac(10, 100), min_apy_threshold |-> Zero,
       use_intraday |-> TRUE] }

\* a date that trips no check of a position entered at 100, and yields nothing
ManagedQuietDay == DayR(100, 100, 100, ZeroRates)

\* entered at 100 with leverage 3 the liquidation prices are 68.33 and 131.67:
\* a low of 64 liquidates the long leg, a low of 72 and a high of 125 are within
\* 10 % of a liquidation price, a high of 200 liquidates the short leg
ManagedDays ==
    { ManagedQuietDay,
      DayR(64, 100, 100, RatesMid),  DayR(72, 100, 100, RatesMid),
      DayR(64, 100, 125, RatesHigh), DayR(100, 100, 200, RatesMid),
      DayR(50, 50, 50, RatesMid) }

\* dates enough to fill the trailing window before the dates that vary
ManagedPrefix == [k \in 1..TrailingDays |-> ManagedQuietDay]

ManagedData ==
    UNION {SeqsOf(ManagedDays, len) : len \in 1..MaxDays}
    \cup {ManagedPrefix \o rest :
             rest \in UNION {SeqsOf(ManagedDays, len) : len \in 1..(MaxDays - 1)}}

\* lines 89-129: the call of run_simulation(initial_capital, leverage, ...)
ManagedInit ==
    /\ script = "managed"
    /\ data \in ManagedData
    /\ args \in ManagedArgs
    /\ pc = "loop"
    /\ i = 0
    /\ capital = args.initial_capital
    /\ ManagedStart
    /\ liquidations = 0
    /\ events = <<>>
    /\ state = "IDLE" /\ cash = Zero
    /\ sol_qty = Zero /\ usdc_debt = Zero /\ short_contracts = Zero
    /\ short_entry = Zero /\ short_margin = Zero
    /\ long_eq = Zero /\ short_eq = Zero
    /\ total_fees = Zero /\ total_carry = Zero /\ total_funding = Zero
    /\ total_liq_penalty = Zero
    /\ opens = 0 /\ closes = 0
    /\ close_reasons = [apy |-> 0, liq_proximity |-> 0]
    /\ deployed_days = 0 /\ idle_days = 0
    /\ capital_rebalances = 0 /\ full_rotations = 0
    /\ liq_leg = "" /\ penalty = Zero
    /\ daily_equity_log = <<>>
    /\ final_capital = Zero

\* lines 138-164: not in position, capital above the minimum: open
ManagedEnter ==
    /\ script = "managed"
    /\ pc = "loop" /\ i < Len(data) /\ ~in_position
    /\ Gt(capital, MinViableCapital)
    /\ \E fees \in {calc_fees(Mul(Half(capital), args.leverage))} :
           /\ capital' = Sub(capital, fees)
           /\ position_capital' = Sub(capital, fees)
           /\ total_fees_paid' = Add(total_fees_paid, fees)
           /\ events' = Append(events,
                  [date |-> i, type |-> "OPEN", price |-> today.close,
                   capital |-> Sub(capital, fees), fees |-> fees,
                   long_liq |-> LongLiqPriceOf(today.close, args.leverage),
                   short_liq |-> ShortLiqPriceOf(today.close, args.leverage)])
           /\ daily_equity' = Append(daily_equity,
                  [date |-> i, equity |-> Sub(capital, fees)])
    /\ in_position' = TRUE
    /\ entry_price' = today.close
    /\ rotations' = rotations + 1
    /\ long_liq_price' = LongLiqPriceOf(today.close, args.leverage)
    /\ short_liq_price' = ShortLiqPriceOf(today.close, args.leverage)
    /\ i' = i + 1
    /\ UNCHANGED <<inputs, pc, unmanaged, final_capital, liquidations,
                   total_carry_earned, total_funding_earned, forced_rebalances,
                   apy_exits, trailing_apy, rebalance_reason>>

\* lines 138-140, 163-164: not in position and no viable capital
ManagedWait ==
    /\ script = "managed"
    /\ pc = "loop" /\ i < Len(data) /\ ~in_position
    /\ ~Gt(capital, MinViableCapital)
    /\ daily_equity' = Append(daily_equity, [date |-> i, equity |-> capital])
    /\ i' = i + 1
    /\ UNCHANGED <<inputs, pc, unmanaged, final_capital, liquidations, events,
                   in_position, capital, position_capital, entry_price,
                   long_liq_price, short_liq_price, total_fees_paid,
                   total_carry_earned, total_funding_earned, rotations,
                   forced_rebalances, apy_exits, trailing_apy, rebalance_reason>>

\* lines 166-228, 246: in position, and no check asks for a close
ManagedHold ==
    /\ script = "managed"
    /\ pc = "loop" /\ i < Len(data) /\ in_position
    /\ \E d \in {ManagedDay} :
           /\ ~d.need_rebalance
           /\ total_carry_earned' = Add(total_carry_earned, d.carry)
           /\ total_funding_earned' = Add(total_funding_earned, d.fund_income)
           /\ capital' = d.capital
           /\ position_capital' = d.position_capital
           /\ trailing_apy' = d.trailing_apy
           /\ liquidations' = liquidations + d.liquidations
           /\ apy_exits' = apy_exits + d.apy_exits
           /\ rebalance_reason' = d.rebalance_reason
           /\ daily_equity' = Append(daily_equity,
                  [date |-> i, equity |-> d.capital])
    /\ i' = i + 1
    /\ UNCHANGED <<inputs, pc, unmanaged, final_capital, events, in_position,
                   entry_price, long_liq_price, short_liq_price,
                   total_fees_paid, rotations, forced_rebalances>>

\* lines 166-246: in position, a check asks for a close: the CLOSE event, the
\* penalty when the reason names a liquidation, out of position
ManagedClose ==
    /\ script = "managed"
    /\ pc = "loop" /\ i < Len(data) /\ in_position
    /\ \E d \in {ManagedDay} :
       \E liq_penalty \in {Mul(d.position_capital, ManagedLiqPenaltyPct)} :
       \E close \in {[date |-> i, type |-> "CLOSE", price |-> today.close,
                      capital |-> d.capital, reason |-> d.rebalance_reason]} :
           /\ d.need_rebalance
           /\ total_carry_earned' = Add(total_carry_earned, d.carry)
           /\ total_funding_earned' = Add(total_funding_earned, d.fund_income)
           /\ position_capital' = d.position_capital
           /\ trailing_apy' = d.trailing_apy
           /\ liquidations' = liquidations + d.liquidations
           /\ apy_exits' = apy_exits + d.apy_exits
           /\ rebalance_reason' = d.rebalance_reason
           /\ IF NamesLiquidation(d.rebalance_reason)
              THEN /\ capital' = Sub(d.capital, liq_penalty)
                   /\ events' = events \o
                          <<close, [date |-> i, type |-> "LIQ_PENALTY",
                                    amount |-> Neg(liq_penalty)]>>
              ELSE /\ capital' = d.capital
                   /\ events' = Append(events, close)
           /\ daily_equity' = Append(daily_equity,
                  [date |-> i, equity |-> capital'])
    /\ in_position' = FALSE
    /\ forced_rebalances' = forced_rebalances + 1
    /\ i' = i + 1
    /\ UNCHANGED <<inputs, pc, unmanaged, final_capital, entry_price,
                   long_liq_price, short_liq_price, total_fees_paid, rotations>>

\* lines 248-250, 268: the FINAL_CLOSE event of a run that ends in position,
\* and "final_capital": capital
ManagedFinish ==
    /\ script = "managed"
    /\ pc = "loop" /\ i = Len(data)
    /\ events' = IF in_position
                 THEN Append(events, [date |-> Len(data) - 1,
                                      type |-> "FINAL_CLOSE", capital |-> capital])
                 ELSE events
    /\ final_capital' = capital
    /\ pc' = "done"
    /\ UNCHANGED <<inputs, i, unmanaged, managed, liquidations>>

ManagedNext ==
    ManagedEnter \/ ManagedWait \/ ManagedHold \/ ManagedClose \/ ManagedFinish

SpecManaged == ManagedInit /\ [][ManagedNext]_vars

(***************************************************************************)
(* Any of the scripts.                                                      *)
(***************************************************************************)
Init == SimInit \/ CmpInit
Next == SimNext \/ CmpNext
Spec == Init /\ [][Next]_vars

(***************************************************************************)
(* Properties.                                                              *)
(***************************************************************************)
LastEvent == events[Len(events)]
EventsOfType(t) == {k \in 1..Len(events) : events[k].type = t}
\* events' is events with exactly one event of type t and date d appended
Appended(t, d) ==
    /\ Len(events') = Len(events) + 1
    /\ SubSeq(events', 1, Len(events)) = events
    /\ events'[Len(events')].type = t
    /\ events'[Len(events')].date = d

\* the state right after an OPEN: the event is the last one and no day has
\* been accrued on the position yet
JustOpened ==
    /\ events # <<>>
    /\ LastEvent.type = "OPEN"
    /\ pc = "loop"
    /\ IF script = "simulation" THEN i = LastEvent.date + 1 ELSE i = 0

\* the capital the OPEN was made from
OpenCapital == IF script = "simulation" THEN cash ELSE args.initial_capital

(* C1: right after an OPEN with capital C and leverage L at price p, in     *)
(* simulation.py as in the initial open of backtest_comparison.py and        *)
(* backtest_rebalance.py, long_eq = sol_qty*p - usdc_debt and short_eq =     *)
(* short_margin are each C/2 - open_fees/2, so their sum is C - open_fees,   *)
(* where open_fees = notional*(asgard_fee_bps + fee_bps)/10000 + GAS_COST    *)
(* and notional = (C/2)*L.                                                   *)
C1_OpenEquityConservation ==
    JustOpened =>
        LET C         == OpenCapital
            p         == LastEvent.price
            notional  == Mul(DivI(C, 2), args.target_leverage)
            open_fees == Add(DivI(Mul(notional, Add(args.asgard_fee_bps,
                                                    args.venue.fee_bps)), 10000),
                             GAS_COST)
            leg       == Sub(DivI(C, 2), DivI(open_fees, 2))
        IN  /\ long_eq = Sub(Mul(sol_qty, p), usdc_debt)
            /\ short_eq = short_margin
            /\ long_eq = leg
            /\ short_eq = leg
            /\ Add(long_eq, short_eq) = Sub(C, open_fees)
            /\ LastEvent.notional = notional
            /\ LastEvent.fees = open_fees
            /\ LastEvent.long_eq = long_eq
            /\ LastEvent.short_eq = short_eq

\* a second OPEN of simulation.py, made from the cash a CLOSE left
C1_Witness ==
    /\ JustOpened
    /\ script = "simulation"
    /\ opens = 2
    /\ cash # args.initial_capital

(* C2: in simulation.py, a day that starts IDLE ends DEPLOYED, with exactly  *)
(* one OPEN event appended, if and only if the day's smoothed net APY is     *)
(* strictly greater than apy_threshold; otherwise the state stays IDLE and   *)
(* no event is appended.                                                     *)
C2_IdleOpensIffSignalAbove ==
    [][ (script = "simulation" /\ pc = "loop" /\ i < Len(data) /\ state = "IDLE") =>
            IF Gt(net_apy.n, Mul(args.apy_threshold, net_apy.d))
            THEN state' = "DEPLOYED" /\ Appended("OPEN", i)
            ELSE state' = "IDLE" /\ events' = events ]_vars

\* the run stayed IDLE on a day whose signal equals the threshold and opened
\* on the next day
C2_Witness ==
    /\ script = "simulation"
    /\ pc = "loop" /\ state = "DEPLOYED"
    /\ opens = 1 /\ i >= 2 /\ idle_days = i - 1
    /\ LastEvent.type = "OPEN" /\ LastEvent.date = i - 1
    /\ QEq(smoothed_apy(data, args.target_leverage, args.lookback_days, i - 2),
           QOf(args.apy_threshold))

(* C3: in simulation.py, a day that starts DEPLOYED ends IDLE, with exactly  *)
(* one CLOSE event appended, if and only if after the day's accrual the      *)
(* smoothed net APY is below apy_threshold or the long or the short buffer   *)
(* is at or below liq_buffer_pct; otherwise it stays DEPLOYED.  The buffers  *)
(* are stated without the divisions: for a positive price and positive       *)
(* sizes, long_buffer <= b is close*(100 - b)*sol_qty*(1 - mm) <=            *)
(* 100*usdc_debt, and short_buffer <= b is 100*(short_margin +               *)
(* short_contracts*short_entry) <= close*(100 + b)*short_contracts*(1 + mm). *)
C3_DeployedClosesIffSignalOrBuffer ==
    [][ /\ (script = "simulation" /\ pc = "loop" /\ i < Len(data)
              /\ state = "DEPLOYED") =>
               (pc' = "check" /\ state' = "DEPLOYED" /\ events' = events /\ i' = i)
        /\ (script = "simulation" /\ pc = "check") =>
               LET p  == today.close
                   mm == args.venue.maintenance_margin
                   b  == args.liq_buffer_pct
                   signalBelow == Lt(net_apy.n, Mul(args.apy_threshold, net_apy.d))
                   longNear ==
                       Le(Mul(Mul(Mul(p, Sub(I(100), b)), sol_qty), Sub(I(1), mm)),
                          Mul(I(100), usdc_debt))
                   shortNear ==
                       Le(Mul(I(100), Add(short_margin,
                                          Mul(short_contracts, short_entry))),
                          Mul(Mul(Mul(p, Add(I(100), b)), short_contracts),
                              Add(I(1), mm)))
               IN  /\ IsPos(p) /\ IsPos(sol_qty) /\ IsPos(short_contracts)
                   /\ IF signalBelow \/ longNear \/ shortNear
                      THEN state' = "IDLE" /\ Appended("CLOSE", i) /\ i' = i + 1
                      ELSE state' = "DEPLOYED" /\ events' = events /\ i' = i + 1
      ]_vars

\* a CLOSE made for the short buffer alone: the signal is not below the
\* threshold and the long buffer is above liq_buffer_pct
C3_Witness ==
    /\ script = "simulation"
    /\ pc = "loop" /\ state = "IDLE" /\ closes >= 1
    /\ LastEvent.type = "CLOSE" /\ LastEvent.date = i - 1
    /\ ~QLt(LastEvent.net_apy, QOf(args.apy_threshold))
    /\ QGt(LastEvent.long_buffer, QOf(args.liq_buffer_pct))
    /\ QLe(LastEvent.short_buffer, QOf(args.liq_buffer_pct))

(* C4: every CLOSE event has reason liq_proximity when the long or the short *)
(* buffer of its day is at or below liq_buffer_pct, also when the signal is  *)
(* below the threshold as well, and reason apy only when the signal is below *)
(* the threshold and neither buffer is breached; close_reasons[liq_proximity]*)
(* + close_reasons[apy] is the number of CLOSE events.                       *)
C4_CloseReason ==
    /\ \A k \in EventsOfType("CLOSE") :
          LET e        == events[k]
              breached == \/ QLe(e.long_buffer, QOf(args.liq_buffer_pct))
                          \/ QLe(e.short_buffer, QOf(args.liq_buffer_pct))
              below    == QLt(e.net_apy, QOf(args.apy_threshold))
          IN  /\ breached => e.reason = "liq_proximity"
              /\ ~breached => (e.reason = "apy" /\ below)
    /\ close_reasons.liq_proximity + close_reasons.apy
          = Cardinality(EventsOfType("CLOSE"))

\* a CLOSE on a day with a breached buffer and a signal below the threshold
C4_Witness ==
    /\ script = "simulation"
    /\ events # <<>>
    /\ LastEvent.type = "CLOSE"
    /\ LastEvent.reason = "liq_proximity"
    /\ QLt(LastEvent.net_apy, QOf(args.apy_threshold))
    /\ close_reasons.liq_proximity = 1

\* two consecutive daily records that are both IDLE record the same equity
IdleRecordsEqual ==
    script = "simulation" =>
        \A k \in 1..(Len(daily_equity_log) - 1) :
            (daily_equity_log[k].state = "IDLE"
                /\ daily_equity_log[k + 1].state = "IDLE") =>
                daily_equity_log[k + 1].equity = daily_equity_log[k].equity

\* a day that starts and ends IDLE leaves the totals and the cash alone
IdleDayFrame ==
    (script = "simulation" /\ pc = "loop" /\ i < Len(data) /\ state = "IDLE"
        /\ state' = "IDLE") =>
        /\ total_fees' = total_fees
        /\ total_carry' = total_carry
        /\ total_funding' = total_funding
        /\ cash' = cash

(* C5: while simulation.py is IDLE the capital is carried forward unchanged: *)
(* two consecutive daily equity records that both have state IDLE record the *)
(* same equity, and total_fees, total_carry and total_funding do not change  *)
(* on a day that starts and ends IDLE.                                       *)
C5_IdleCarriesCapital == []IdleRecordsEqual /\ [][IdleDayFrame]_vars

\* two IDLE records in a row after a CLOSE, at an equity other than the
\* initial capital
C5_Witness ==
    /\ script = "simulation"
    /\ closes >= 1
    /\ Len(daily_equity_log) >= 2
    /\ daily_equity_log[Len(daily_equity_log)].state = "IDLE"
    /\ daily_equity_log[Len(daily_equity_log) - 1].state = "IDLE"
    /\ daily_equity_log[Len(daily_equity_log)].equity # args.initial_capital

\* the two breach tests of a day of backtest_comparison.py, on the state after
\* the day's accrual
LongBreachAtLow ==
    Le(Sub(Mul(sol_qty, today.low), usdc_debt),
       Mul(args.venue.maintenance_margin, Mul(sol_qty, today.low)))
ShortBreachAtHigh ==
    Le(Add(short_margin, Mul(short_contracts, Sub(short_entry, today.high))),
       Mul(args.venue.maintenance_margin, Mul(short_contracts, today.high)))
\* the state between the accrual of a day and what the day does with it
AfterAccrual == script = "comparison" /\ pc = "check"
\* the state between the LIQUIDATION event and the reopen
AfterPenalty == script = "comparison" /\ pc = "reopen"
\* the equities of the position at the close, before any penalty
LongEqAtClose == Sub(Mul(sol_qty, today.close), usdc_debt)
ShortEqAtClose ==
    Add(short_margin, Mul(short_contracts, Sub(short_entry, today.close)))

(* C6: the liquidation verdict of a day is computed from the state after    *)
(* the day's accrual at the day's extremes: the long leg is breached exactly *)
(* when sol_qty*low - usdc_debt <= maintenance_margin*(sol_qty*low), the     *)
(* short leg exactly when short_margin + short_contracts*(short_entry -      *)
(* high) <= maintenance_margin*(short_contracts*high); the verdict is LONG,  *)
(* SHORT, BOTH or none according to which of the two hold, and the close     *)
(* price has no part in it.                                                  *)
C6_LiquidationVerdict ==
    [][ AfterAccrual =>
            LET verdict == IF LongBreachAtLow /\ ShortBreachAtHigh THEN "BOTH"
                           ELSE IF LongBreachAtLow THEN "LONG"
                           ELSE IF ShortBreachAtHigh THEN "SHORT"
                           ELSE ""
            IN  /\ liq_leg' = verdict
                /\ IF verdict = ""
                   THEN /\ liquidations' = liquidations
                        /\ EventsOfType("LIQUIDATION")' = EventsOfType("LIQUIDATION")
                   ELSE /\ liquidations' = liquidations + 1
                        /\ Appended("LIQUIDATION", i)
                        /\ events'[Len(events')].leg = verdict ]_vars

\* a long leg liquidated on the day's low although its equity at the close is
\* above the maintenance margin
C6_Witness ==
    /\ AfterPenalty
    /\ liq_leg = "LONG"
    /\ Gt(LongEqAtClose,
          Mul(args.venue.maintenance_margin, Mul(sol_qty, today.close)))

\* the penalty charged to each leg under the notional model: `penalty` holds
\* the last penalized leg's, the step's increase of total_liq_penalty the sum
LongPenaltyCharged ==
    IF liq_leg' = "LONG" THEN penalty'
    ELSE IF liq_leg' = "BOTH"
    THEN Sub(Sub(total_liq_penalty', total_liq_penalty), penalty')
    ELSE Zero
ShortPenaltyCharged == IF liq_leg' \in {"SHORT", "BOTH"} THEN penalty' ELSE Zero
NotionalLiquidation ==
    /\ AfterAccrual
    /\ args.venue.liq_penalty_model = "notional"
    /\ pc' = "reopen"

(* C7 as amended: under the notional penalty model, for every liquidation    *)
(* and each penalized leg, the penalty charged to the leg is at most the     *)
(* leg's equity before the penalty or zero, whichever is greater, and at     *)
(* most liq_penalty_pct times the leg's notional at the close, and the leg's *)
(* equity after the penalty is not below zero.                               *)
C7_NotionalPenaltyCapped ==
    [][ NotionalLiquidation =>
            LET pct == args.venue.liq_penalty_pct
            IN  /\ liq_leg' \in {"LONG", "BOTH"} =>
                      /\ Le(LongPenaltyCharged, Max(LongEqAtClose, Zero))
                      /\ Le(LongPenaltyCharged, Mul(pct, Mul(sol_qty, today.close)))
                      /\ ~IsNeg(long_eq')
                /\ liq_leg' \in {"SHORT", "BOTH"} =>
                      /\ Le(ShortPenaltyCharged, Max(ShortEqAtClose, Zero))
                      /\ Le(ShortPenaltyCharged,
                            Mul(pct, Mul(short_contracts, today.close)))
                      /\ ~IsNeg(short_eq') ]_vars

(* C7 as claimed: under the notional penalty model, for every liquidation    *)
(* and each penalized leg, the penalty charged to the leg is at most the     *)
(* leg's equity before the penalty and at most liq_penalty_pct times the     *)
(* leg's notional.                                                           *)
C7_Original ==
    [][ NotionalLiquidation =>
            LET pct == args.venue.liq_penalty_pct
            IN  /\ liq_leg' \in {"LONG", "BOTH"} =>
                      /\ Le(LongPenaltyCharged, LongEqAtClose)
                      /\ Le(LongPenaltyCharged, Mul(pct, Mul(sol_qty, today.close)))
                /\ liq_leg' \in {"SHORT", "BOTH"} =>
                      /\ Le(ShortPenaltyCharged, ShortEqAtClose)
                      /\ Le(ShortPenaltyCharged,
                            Mul(pct, Mul(short_contracts, today.close))) ]_vars

\* a long leg whose equity is positive and below liq_penalty_pct of its
\* notional: the cap binds and the penalty is the whole of the equity
C7_Witness ==
    /\ AfterPenalty
    /\ args.venue.liq_penalty_model = "notional"
    /\ liq_leg = "LONG"
    /\ IsPos(LongEqAtClose)
    /\ Lt(LongEqAtClose, Mul(args.venue.liq_penalty_pct, Mul(sol_qty, today.close)))
    /\ penalty = LongEqAtClose
    /\ long_eq = Zero

(* C8: after a liquidation penalty under either penalty model the equity of  *)
(* every penalized leg is >= 0 and the penalty is >= 0, also when the leg's  *)
(* equity at the close was zero or negative before the penalty; the long_eq  *)
(* and short_eq of every LIQUIDATION event are >= 0.                         *)
C8_PenaltyClamped ==
    /\ \A k \in EventsOfType("LIQUIDATION") :
          /\ ~IsNeg(events[k].long_eq)
          /\ ~IsNeg(events[k].short_eq)
          /\ ~IsNeg(events[k].penalty)
    /\ ~IsNeg(total_liq_penalty)
    /\ AfterPenalty =>
          /\ liq_leg \in {"LONG", "BOTH"} => ~IsNeg(long_eq)
          /\ liq_leg \in {"SHORT", "BOTH"} => ~IsNeg(short_eq)
          /\ LastEvent.long_eq = long_eq /\ LastEvent.short_eq = short_eq

\* every LIQUIDATION event is followed at once by a REOPEN_AFTER_LIQ event of
\* its date, no CAPITAL_REBALANCE event has that date, and the counter counts
\* the LIQUIDATION events
LiquidationEventsPaired ==
    script = "comparison" =>
        /\ \A k \in EventsOfType("LIQUIDATION") :
              /\ IF k = Len(events) THEN pc = "reopen" /\ events[k].date = i
                 ELSE /\ events[k + 1].type = "REOPEN_AFTER_LIQ"
                      /\ events[k + 1].date = events[k].date
              /\ \A j \in 1..Len(events) :
                    (j # k /\ events[j].date = events[k].date) =>
                        events[j].type \in {"OPEN", "REOPEN_AFTER_LIQ"}
        /\ \A k \in EventsOfType("REOPEN_AFTER_LIQ") :
              k > 1 /\ events[k - 1].type = "LIQUIDATION"
        /\ liquidations = Cardinality(EventsOfType("LIQUIDATION"))

\* a breached day appends the LIQUIDATION event and counts it; the reopen
\* appends the REOPEN_AFTER_LIQ event and ends the day
LiquidationDaySteps ==
    /\ (AfterAccrual /\ (LongBreachAtLow \/ ShortBreachAtHigh)) =>
          /\ Appended("LIQUIDATION", i)
          /\ LongBreachAtLow => events'[Len(events')].leg \in {"LONG", "BOTH"}
          /\ ShortBreachAtHigh => events'[Len(events')].leg \in {"SHORT", "BOTH"}
          /\ liquidations' = liquidations + 1
          /\ capital_rebalances' = capital_rebalances
          /\ pc' = "reopen" /\ i' = i
    /\ AfterPenalty =>
          /\ LastEvent.type = "LIQUIDATION" /\ LastEvent.date = i
          /\ Appended("REOPEN_AFTER_LIQ", i)
          /\ liquidations' = liquidations
          /\ capital_rebalances' = capital_rebalances
          /\ pc' = "loop" /\ i' = i + 1

(* C9: on a day whose low breaches the long-leg liquidation condition, or    *)
(* whose high breaches the short-leg condition, the events appended for the  *)
(* day are exactly a LIQUIDATION event (with leg LONG or BOTH for a long     *)
(* breach) followed at once by a REOPEN_AFTER_LIQ event of the same date; no *)
(* CAPITAL_REBALANCE event is appended on a liquidation day and the          *)
(* liquidation counter goes up by exactly one.                               *)
C9_LiquidationDayEvents == []LiquidationEventsPaired /\ [][LiquidationDaySteps]_vars

\* a day with both legs breached, on a run that has rebalanced capital before
C9_Witness ==
    /\ script = "comparison"
    /\ pc = "loop" /\ i >= 2
    /\ capital_rebalances >= 1
    /\ Len(events) >= 3
    /\ LastEvent.type = "REOPEN_AFTER_LIQ" /\ LastEvent.date = i - 1
    /\ events[Len(events) - 1].type = "LIQUIDATION"
    /\ events[Len(events) - 1].leg = "BOTH"

(* C10 as amended: after a liquidation the position is rebuilt at the day's  *)
(* close from the pooled equity after the penalty less the reopen fees: the  *)
(* notional of the REOPEN_AFTER_LIQ event, and sol_qty*close =               *)
(* short_contracts*close, equal ((pooled_equity - reopen_fees)/2)*leverage,  *)
(* where pooled_equity is the sum of the two legs' equities after the        *)
(* penalty and reopen_fees the fees of the event.                            *)
C10_ReopenNotional ==
    [][ AfterPenalty =>
            LET pooled_equity == Add(long_eq, short_eq)
                reopen_fees   == Sub(total_fees', total_fees)
                notional      == Mul(DivI(Sub(pooled_equity, reopen_fees), 2),
                                     args.target_leverage)
            IN  /\ Appended("REOPEN_AFTER_LIQ", i)
                /\ events'[Len(events')].fees = reopen_fees
                /\ events'[Len(events')].notional = notional
                /\ Mul(sol_qty', today.close) = notional
                /\ Mul(short_contracts', today.close) = notional ]_vars

(* C10 as claimed: the notional of every REOPEN_AFTER_LIQ event equals       *)
(* (pooled_equity/2)*leverage, where pooled_equity is the sum of the two     *)
(* legs' equities after the penalty (those of the LIQUIDATION event before   *)
(* it).                                                                      *)
C10_Original ==
    \A k \in EventsOfType("REOPEN_AFTER_LIQ") :
        events[k].notional =
            Mul(DivI(Add(events[k - 1].long_eq, events[k - 1].short_eq), 2),
                args.target_leverage)

\* a position just rebuilt after a liquidation
C10_Witness ==
    /\ script = "comparison"
    /\ pc = "loop" /\ i >= 1
    /\ LastEvent.type = "REOPEN_AFTER_LIQ" /\ LastEvent.date = i - 1
    /\ IsPos(LastEvent.notional)
    /\ Mul(sol_qty, LastEvent.price) = LastEvent.notional
    /\ Mul(short_contracts, LastEvent.price) = LastEvent.notional

\* a day of backtest_comparison.py that ends without a liquidation
DayWithoutLiquidation == AfterAccrual /\ pc' = "loop"
\* the transfer that would make the two equities equal
RequiredTransfer == Abs(Sub(long_eq, Half(Add(long_eq, short_eq))))

(* C11: whenever a CAPITAL_REBALANCE event is emitted the two equities at    *)
(* the close are equal afterwards, each (total equity before - bridge_cost)  *)
(* / 2, total equity is lower by exactly bridge_cost and total_fees higher   *)
(* by exactly bridge_cost; when the required transfer is not above 5 no      *)
(* event is emitted and usdc_debt, short_margin and total_fees are unchanged.*)
C11_RebalanceEqualizes ==
    [][ DayWithoutLiquidation =>
            LET total == Add(long_eq, short_eq)
                cost  == args.venue.bridge_cost
            IN  /\ events' # events =>
                      /\ Appended("CAPITAL_REBALANCE", i)
                      /\ Gt(RequiredTransfer, I(5))
                      /\ long_eq' = Sub(Mul(sol_qty', today.close), usdc_debt')
                      /\ short_eq' = Add(short_margin',
                                         Mul(short_contracts',
                                             Sub(short_entry', today.close)))
                      /\ long_eq' = short_eq'
                      /\ long_eq' = Half(Sub(total, cost))
                      /\ Add(long_eq', short_eq') = Sub(total, cost)
                      /\ total_fees' = Add(total_fees, cost)
                      /\ events'[Len(events')].long_eq = long_eq'
                      /\ events'[Len(events')].short_eq = short_eq'
                /\ ~Gt(RequiredTransfer, I(5)) =>
                      /\ events' = events
                      /\ usdc_debt' = usdc_debt
                      /\ short_margin' = short_margin
                      /\ total_fees' = total_fees ]_vars

\* the state right after a capital rebalance, the two equities equal
C11_Witness ==
    /\ script = "comparison"
    /\ pc = "loop" /\ i >= 1
    /\ LastEvent.type = "CAPITAL_REBALANCE" /\ LastEvent.date = i - 1
    /\ Gt(LastEvent.transfer, I(5))
    /\ long_eq = short_eq
    /\ IsPos(long_eq)

\* the steps of a day: the accrual, and a capital rebalance
AccrualStep == pc = "loop" /\ pc' = "check"
RebalanceStep ==
    /\ Len(events') = Len(events) + 1
    /\ events'[Len(events')].type = "CAPITAL_REBALANCE"

(* C12: a capital rebalance leaves sol_qty, short_contracts and short_entry  *)
(* unchanged; the daily accrual leaves short_contracts and short_entry       *)
(* unchanged and adds the funding to short_margin; short_contracts and       *)
(* short_entry change only in a step that appends an OPEN, a CLOSE or a      *)
(* REOPEN_AFTER_LIQ event.                                                   *)
C12_SizesFrame ==
    [][ /\ RebalanceStep =>
              /\ sol_qty' = sol_qty
              /\ short_contracts' = short_contracts
              /\ short_entry' = short_entry
        /\ AccrualStep =>
              /\ short_contracts' = short_contracts
              /\ short_entry' = short_entry
              /\ short_margin' =
                    Add(short_margin,
                        Mul(Mul(today.funding, short_contracts), today.close))
        /\ (short_contracts' # short_contracts \/ short_entry' # short_entry) =>
              /\ Len(events') = Len(events) + 1
              /\ events'[Len(events')].type \in {"OPEN", "CLOSE", "REOPEN_AFTER_LIQ"}
      ]_vars

\* right after a capital rebalance that followed days of funding: the margin
\* has moved while the contracts and the entry price are those of the opening
C12_Witness ==
    /\ script = "comparison"
    /\ pc = "loop" /\ i >= 2
    /\ LastEvent.type = "CAPITAL_REBALANCE"
    /\ \E k \in 1..(Len(events) - 1) :
          /\ events[k].type \in {"OPEN", "REOPEN_AFTER_LIQ"}
          /\ \A j \in (k + 1)..Len(events) : events[j].type = "CAPITAL_REBALANCE"
          /\ Mul(short_contracts, events[k].price) = events[k].notional
          /\ short_entry = events[k].price
          /\ short_margin # events[k].short_eq
    /\ IsPos(total_funding)

\* the rebalance trigger in force: the argument, or 2 * target_leverage when
\* the argument is not above zero
TriggerInForce ==
    IF Gt(args.rebalance_lev_trigger, Zero) THEN args.rebalance_lev_trigger
    ELSE Mul(I(2), args.target_leverage)
\* notional at the close / equity at the close > trigger, for an equity > 0
LongLeverageAbove(t) == Gt(Mul(sol_qty, today.close), Mul(t, long_eq))
ShortLeverageAbove(t) == Gt(Mul(short_contracts, today.close), Mul(t, short_eq))

(* C13: on a day without liquidation whose two equities at the close are     *)
(* positive, of whatever size, a capital rebalance is attempted exactly when *)
(* the notional at the close divided by the equity at the close exceeds the  *)
(* trigger for one of the legs, the trigger being 2 * target_leverage when   *)
(* the argument is not above zero.                                           *)
C13_TriggerOnEffectiveLeverage ==
    (/\ AfterAccrual
     /\ ~LongBreachAtLow /\ ~ShortBreachAtHigh
     /\ IsPos(long_eq) /\ IsPos(short_eq))
    => (rebalance_triggered <=>
            (LongLeverageAbove(TriggerInForce) \/ ShortLeverageAbove(TriggerInForce)))

\* a configuration the run should refuse
ConfigError ==
    \/ ~IsPos(args.initial_capital)
    \/ Le(args.target_leverage, I(1))
    \/ (script = "comparison"
        /\ args.venue.liq_penalty_model \notin {"equity", "notional"})

(* C14: a run started with a configuration error (initial capital <= 0,      *)
(* target leverage <= 1, or a venue whose liq_penalty_model is neither of    *)
(* the two known tags) produces no event and no daily equity record and      *)
(* returns no result.                                                        *)
C14_ConfigErrorFailsFast ==
    ConfigError => (events = <<>> /\ daily_equity_log = <<>> /\ pc # "done")

\* a date of the run is missing from one of the rate lookups
MissingDate == \E k \in 1..Len(data) : data[k].dated # {"sol", "usdc", "funding"}

(* C15: if a date of the run is missing from the lending-rate, the           *)
(* borrowing-rate or the funding-rate lookup the run fails: it simulates no  *)
(* day with a zero in place of the missing rate and returns no result.       *)
C15_MissingDateFails ==
    MissingDate => (i = 0 /\ daily_equity_log = <<>> /\ pc # "done")

\* max_dd of the first k records of the daily equity log
DrawdownOfPrefix(k) ==
    MaxDrawdown(SubSeq(daily_equity_log, 1, k), args.initial_capital)

\* from the prefix of k records on, the maximum drawdown of each prefix is not
\* negative and at least `before`, that of the prefix one record shorter
RECURSIVE GrowsFrom(_, _)
GrowsFrom(k, before) ==
    IF k > Len(daily_equity_log) THEN TRUE
    ELSE LET max_dd == DrawdownOfPrefix(k)
         IN  /\ QLe(QOf(Zero), max_dd)
             /\ QLe(before, max_dd)
             /\ GrowsFrom(k + 1, max_dd)

(* C16: the maximum drawdown over the daily equity log (running peak         *)
(* starting at initial_capital, drawdown (peak - equity)/peak) is not        *)
(* negative, and for every prefix of the log the maximum drawdown of the     *)
(* prefix with one more day is at least that of the prefix.                  *)
C16_DrawdownMonotone ==
    /\ QLe(QOf(Zero), DrawdownOfPrefix(0))
    /\ GrowsFrom(1, DrawdownOfPrefix(0))

\* a log whose drawdown was positive, recovered in part on a later day (the
\* maximum stays) and grew again on the last day
C16_Witness ==
    /\ Len(daily_equity_log) >= 3
    /\ \E k \in 1..(Len(daily_equity_log) - 2) :
          /\ QLt(QOf(Zero), DrawdownOfPrefix(k))
          /\ Lt(daily_equity_log[k].equity, daily_equity_log[k + 1].equity)
          /\ QEq(DrawdownOfPrefix(k), DrawdownOfPrefix(k + 1))
    /\ QLt(DrawdownOfPrefix(Len(daily_equity_log) - 1),
           DrawdownOfPrefix(Len(daily_equity_log)))

\* the day's yield on the position of the current state
LendDaily == DivI(DivI(LendOf(today), 100), 365)
BorrowDaily == DivI(DivI(BorrowOf(today), 100), 365)
\* the step is the accrual of day i: nothing is tested or recorded in it, and it
\* leaves the state on which the day's tests are made
AccrualOfTheDay ==
    /\ pc = "loop" /\ i' = i /\ logs' = logs
    /\ sol_qty' = Add(sol_qty, Mul(sol_qty, LendDaily))
    /\ usdc_debt' = Add(usdc_debt, Mul(usdc_debt, BorrowDaily))
    /\ short_margin' = Add(short_margin,
                           Mul(Mul(FundingOf(today), short_contracts), today.close))
    /\ long_eq' = Sub(Mul(sol_qty', today.close), usdc_debt')
    /\ short_eq' = Add(short_margin',
                       Mul(short_contracts', Sub(short_entry', today.close)))
\* the equity the day's log record holds after the step
RecordedEquity == daily_equity_log'[Len(daily_equity_log')].equity
\* backtest_comparison.py: the tests of the day bear on the current state
CmpTestsOnCurrentState ==
    /\ long_eq = LongEqAtClose /\ short_eq = ShortEqAtClose
    /\ pc' = "reopen" <=> (LongBreachAtLow \/ ShortBreachAtHigh)
    /\ pc' = "loop" =>
          /\ events' # events =>
                \/ QGt(EffLev(Mul(sol_qty, today.close), LongEqAtClose),
                       QOf(TriggerInForce))
                \/ QGt(EffLev(Mul(short_contracts, today.close), ShortEqAtClose),
                       QOf(TriggerInForce))
          /\ RecordedEquity =
                Add(Sub(Mul(sol_qty', today.close), usdc_debt'),
                    Add(short_margin',
                        Mul(short_contracts', Sub(short_entry', today.close))))
          /\ events' = events => RecordedEquity = Add(LongEqAtClose, ShortEqAtClose)
\* simulation.py: the tests of the day bear on the current state
SimTestsOnCurrentState ==
    /\ long_eq = LongEqAtClose /\ short_eq = ShortEqAtClose
    /\ state' = "IDLE" <=>
          \/ NearLiq(LongBuffer(sol_qty, usdc_debt, args.venue.maintenance_margin,
                                today.close),
                     ShortBuffer(short_margin, short_contracts, short_entry,
                                 args.venue.maintenance_margin, today.close),
                     args.liq_buffer_pct)
          \/ ApyBelow(net_apy, args.apy_threshold)
    /\ state' = "IDLE" =>
          /\ events'[Len(events')].long_eq = LongEqAtClose
          /\ events'[Len(events')].short_eq = ShortEqAtClose
          /\ RecordedEquity = cash'
          /\ cash' = Sub(Add(LongEqAtClose, ShortEqAtClose),
                         events'[Len(events')].fees)
    /\ state' = "DEPLOYED" =>
          RecordedEquity = Add(LongEqAtClose, ShortEqAtClose)

(* C17: on every deployed day the accrual comes first, then the equities,    *)
(* then the liquidation or proximity test, then the rebalance, reopen or     *)
(* close: every liquidation test, buffer test and rebalance trigger, and the *)
(* equity recorded for the day, are those of sol_qty, usdc_debt and          *)
(* short_margin as they are after the day's lending, borrowing and funding   *)
(* accrual.                                                                  *)
C17_AccrualBeforeChecks ==
    [][ /\ pc' = "check" => AccrualOfTheDay
        /\ (pc = "check" /\ script = "comparison") => CmpTestsOnCurrentState
        /\ (pc = "check" /\ script = "simulation") => SimTestsOnCurrentState
      ]_vars

\* a day of backtest_comparison.py recorded after its accrual: the equity of the
\* record is that of the position with the day's carry and funding in it
C17_Witness ==
    /\ script = "comparison"
    /\ pc = "loop" /\ i >= 2
    /\ Len(events) = 1
    /\ IsPos(total_carry) /\ IsPos(total_funding)
    /\ Gt(Mul(sol_qty, events[1].price), events[1].notional)
    /\ daily_equity_log[i].equity =
          Add(Sub(Mul(sol_qty, data[i].close), usdc_debt),
              Add(short_margin,
                  Mul(short_contracts, Sub(short_entry, data[i].close))))

\* simulation.py: no position while IDLE, both legs while DEPLOYED
PositionMatchesState ==
    script = "simulation" =>
        /\ state = "IDLE" =>
              /\ sol_qty = Zero /\ usdc_debt = Zero /\ short_contracts = Zero
              /\ short_entry = Zero /\ short_margin = Zero
        /\ state = "DEPLOYED" => (sol_qty # Zero /\ short_contracts # Zero)
\* a CLOSE stores the closing equity as cash and resets the position at once
CloseResetsPosition ==
    (script = "simulation" /\ state = "DEPLOYED" /\ state' = "IDLE") =>
        /\ Appended("CLOSE", i)
        /\ cash' = events'[Len(events')].equity_after
        /\ cash' = Sub(Add(LongEqAtClose, ShortEqAtClose), events'[Len(events')].fees)
        /\ sol_qty' = Zero /\ usdc_debt' = Zero /\ short_contracts' = Zero
        /\ short_entry' = Zero /\ short_margin' = Zero

(* C18: in simulation.py, in every state where the run is IDLE sol_qty,      *)
(* usdc_debt, short_contracts, short_entry and short_margin are all zero,    *)
(* in every state where it is DEPLOYED sol_qty and short_contracts are both  *)
(* non-zero, and a CLOSE resets the five fields to zero in the step that     *)
(* stores the closing equity as cash.                                        *)
C18_NoPositionWhileIdle == []PositionMatchesState /\ [][CloseResetsPosition]_vars

\* IDLE again after a CLOSE: the cash is the closing equity, the position zero
C18_Witness ==
    /\ script = "simulation"
    /\ pc = "loop" /\ state = "IDLE" /\ closes >= 1
    /\ LastEvent.type = "CLOSE" /\ LastEvent.date = i - 1
    /\ cash = LastEvent.equity_after
    /\ sol_qty = Zero /\ short_margin = Zero

(* C19: in simulation.py, on no day that the run remains DEPLOYED does the   *)
(* long leg satisfy its liquidation condition at the day's low or the short  *)
(* leg at the day's high.                                                    *)
C19_ExitsBeforeLiquidation ==
    [][ (script = "simulation" /\ pc = "check" /\ state' = "DEPLOYED") =>
            (~LongBreachAtLow /\ ~ShortBreachAtHigh) ]_vars

(* C20: in every reachable state of a run sol_qty >= 0, usdc_debt >= 0 and   *)
(* short_contracts >= 0, also after a reopen that follows a liquidation and  *)
(* after an OPEN made from the cash of an earlier CLOSE.                     *)
C20_SizesNonNegative ==
    /\ ~IsNeg(sol_qty)
    /\ ~IsNeg(usdc_debt)
    /\ ~IsNeg(short_contracts)

(* C21: short_margin is not negative in any reachable state: opening fees,   *)
(* negative funding, capital rebalances that move margin to the long leg and *)
(* bridge fees may bring it to zero but not below.                           *)
C21_MarginNonNegative == ~IsNeg(short_margin)

\* the reference scenario: $10,000 at leverage 3, venue taker fee 3.5 bps,
\* opening fee 15 bps
ReferenceScenario ==
    /\ args.initial_capital = I(10000)
    /\ args.target_leverage = I(3)
    /\ args.venue.fee_bps = Frac(35, 10)
    /\ args.asgard_fee_bps = I(15)
\* the state right after an OPEN made from the reference capital
ReferenceOpen == JustOpened /\ ReferenceScenario /\ OpenCapital = I(10000)
Within(x, c, tol) == Le(Abs(Sub(x, c)), tol)

(* C22 as amended: in the reference scenario the open_fees charged at OPEN,  *)
(* recorded in the OPEN event and in total_fees, are $29.75 within $0.01     *)
(* ($15,000 * (0.0015 + 0.00035) + $2).                                      *)
C22_ReferenceOpenFees ==
    ReferenceOpen =>
        /\ Within(LastEvent.fees, Frac(2975, 100), Frac(1, 100))
        /\ total_fees = LastEvent.fees
        /\ LastEvent.notional = I(15000)

(* C22 as claimed: in the reference scenario the open_fees charged at OPEN,  *)
(* recorded in the OPEN event and in total_fees, are $23.75 within $0.01.    *)
C22_Original ==
    ReferenceOpen =>
        /\ Within(LastEvent.fees, Frac(2375, 100), Frac(1, 100))
        /\ total_fees = LastEvent.fees

\* simulation.py opens in the reference scenario after an idle day
C22_Witness ==
    /\ ReferenceOpen
    /\ script = "simulation"
    /\ idle_days >= 1
    /\ total_fees = Frac(2975, 100)

\* the dates whose yield has been accrued on the position held now: all dates
\* so far in backtest_comparison.py, the dates after the OPEN in simulation.py
FirstAccruedDay == IF script = "simulation" THEN LastEvent.date + 2 ELSE 1
LastAccruedDay == IF pc \in {"check", "reopen"} THEN i + 1 ELSE i
NoYieldSinceOpen ==
    \A k \in FirstAccruedDay..LastAccruedDay :
        /\ LendOf(data[k]) = Zero
        /\ BorrowOf(data[k]) = Zero
        /\ FundingOf(data[k]) = Zero
\* a position held since its OPEN without liquidation, rebalance or yield
UndisturbedPosition ==
    /\ state = "DEPLOYED" /\ events # <<>>
    /\ LastEvent.type = "OPEN"
    /\ liquidations = 0 /\ capital_rebalances = 0
    /\ NoYieldSinceOpen
\* the equities of the position of the current state at price P
LongEqAt(P) == Sub(Mul(sol_qty, I(P)), usdc_debt)
ShortEqAt(P) == Add(short_margin, Mul(short_contracts, Sub(short_entry, I(P))))
ProbePrices == {50, 100, 128, 200}

(* C23: while sol_qty = short_contracts a change of the price from P1 to P2  *)
(* moves the long equity and the short equity by equal and opposite amounts; *)
(* in a run without liquidation and rebalance whose lending, borrowing and   *)
(* funding rates are all zero, sol_qty = short_contracts and the equity      *)
(* recorded on every deployed day is the equity of the OPEN, whatever the    *)
(* prices of the days.                                                       *)
C23_DeltaNeutral ==
    /\ sol_qty = short_contracts =>
          \A P1, P2 \in ProbePrices :
              Sub(LongEqAt(P2), LongEqAt(P1)) = Sub(ShortEqAt(P1), ShortEqAt(P2))
    /\ UndisturbedPosition =>
          /\ sol_qty = short_contracts
          /\ \A k \in (FirstAccruedDay - (IF script = "simulation" THEN 1 ELSE 0))
                        ..Len(daily_equity_log) :
                daily_equity_log[k].equity = Add(LastEvent.long_eq, LastEvent.short_eq)
          /\ pc = "check" => Add(long_eq, short_eq)
                                = Add(LastEvent.long_eq, LastEvent.short_eq)

\* three days recorded, the last at another close than the first: the legs'
\* equities are apart and the recorded equity is that of the OPEN on each day
C23_Witness ==
    /\ script = "comparison"
    /\ UndisturbedPosition
    /\ pc = "loop" /\ i = 3
    /\ data[1].close # data[3].close
    /\ long_eq # short_eq
    /\ daily_equity_log[3].equity = daily_equity_log[1].equity
    /\ daily_equity_log[3].equity = Sub(args.initial_capital, total_fees)

\* the raw net APY of the k-th date (from 0) of dat, in per cent:
\* (L/2)*(lend + funding*365*100) - ((L-1)/2)*borrow
RawNetApy(dat, k) ==
    LET L == args.target_leverage
        r == dat[k + 1]
    IN  Sub(Mul(DivI(L, 2), Add(r.lend, Mul(r.funding, I(36500)))),
            Mul(DivI(Sub(L, I(1)), 2), r.borrow))
RECURSIVE SumOfRaw(_, _, _)
SumOfRaw(dat, from, to) ==
    IF from > to THEN Zero ELSE Add(RawNetApy(dat, to), SumOfRaw(dat, from, to - 1))
\* the first day of the window of day j
FirstOfWindow(j) ==
    IF j - args.lookback_days + 1 > 0 THEN j - args.lookback_days + 1 ELSE 0
\* the data of the run with one date after day i replaced by another, and the
\* data cut after day i
LaterDataAltered ==
    {[data EXCEPT ![k] = DayR(100, 100, 100, r)] :
        k \in (i + 2)..Len(data), r \in {RatesHigh, RatesLow}}
        \cup {SubSeq(data, 1, i + 1)}
\* the run is about to decide day i
DecidingDay == script = "simulation" /\ pc = "loop" /\ i < Len(data)

(* C24: the signal used on day i is the sum of the raw daily net APY of the  *)
(* days max(0, i - lookback_days + 1) .. i divided by their number, and it   *)
(* is the same for every data that agrees with the run's on the days 0 .. i: *)
(* altering or removing a later day does not change it.                      *)
C24_SignalIsTrailingAverage ==
    DecidingDay =>
        /\ QEq(net_apy, [n |-> SumOfRaw(data, FirstOfWindow(i), i),
                         d |-> I(i - FirstOfWindow(i) + 1)])
        /\ \A other \in LaterDataAltered :
              smoothed_apy(other, args.target_leverage, args.lookback_days, i)
                  = net_apy

\* day 1 of three with a window of two days: the two raw values of the window
\* differ, and so does the raw value of the day after
C24_Witness ==
    /\ DecidingDay
    /\ i = 1 /\ Len(data) = 3
    /\ args.lookback_days = 2
    /\ RawNetApy(data, 0) # RawNetApy(data, 1)
    /\ RawNetApy(data, 2) # RawNetApy(data, 1)
    /\ RawNetApy(data, 2) # RawNetApy(data, 0)
    /\ net_apy.d = I(2)

\* the penalty of one leg, from the leg's own equity and notional at the close:
\* pct of the equity under the equity model, pct of the notional but at most
\* the equity under the notional model, and never below zero
PenaltyOfLeg(eq, notional) ==
    LET pct == args.venue.liq_penalty_pct
    IN  IF args.venue.liq_penalty_model = "equity" THEN Max(Mul(eq, pct), Zero)
        ELSE Min(Mul(notional, pct), Max(eq, Zero))
\* the step from the verdict of a liquidation day to the penalised equities
PenaltyStep == AfterAccrual /\ pc' = "reopen"
LongPenaltyDue == PenaltyOfLeg(LongEqAtClose, Mul(sol_qty, today.close))
ShortPenaltyDue == PenaltyOfLeg(ShortEqAtClose, Mul(short_contracts, today.close))

(* C25: a liquidation penalty is applied to exactly the legs the verdict     *)
(* names.  For LONG the short equity is unchanged and the penalty recorded   *)
(* is the long leg's; for SHORT the long equity is unchanged and the penalty *)
(* is the short leg's; for BOTH each leg is penalised on its own equity (or  *)
(* notional) and the penalty recorded is the sum of the two.  A penalised    *)
(* leg is left with max(equity, 0) less its penalty, and the equity pooled   *)
(* for the reopen is the sum of the two legs' equities after the step.       *)
C25_PenaltyOnNamedLegs ==
    [][ /\ PenaltyStep =>
              LET longHit  == liq_leg' \in {"LONG", "BOTH"}
                  shortHit == liq_leg' \in {"SHORT", "BOTH"}
                  lp == IF longHit THEN LongPenaltyDue ELSE Zero
                  sp == IF shortHit THEN ShortPenaltyDue ELSE Zero
              IN  /\ liq_leg' \in {"LONG", "SHORT", "BOTH"}
                  /\ long_eq' = IF longHit THEN Sub(Max(LongEqAtClose, Zero), lp)
                                ELSE LongEqAtClose
                  /\ short_eq' = IF shortHit THEN Sub(Max(ShortEqAtClose, Zero), sp)
                                 ELSE ShortEqAtClose
                  /\ Sub(total_liq_penalty', total_liq_penalty) = Add(lp, sp)
                  /\ events'[Len(events')].penalty = Add(lp, sp)
                  /\ events'[Len(events')].long_eq = long_eq'
                  /\ events'[Len(events')].short_eq = short_eq'
        /\ AfterPenalty =>
              events'[Len(events')].notional =
                  Mul(DivI(Sub(Add(long_eq, short_eq), events'[Len(events')].fees), 2),
                      args.target_leverage)
      ]_vars

\* both legs breached on one day, their equities at the close positive and
\* different: each has lost its own share and the event records the sum
C25_Witness ==
    /\ AfterPenalty
    /\ liq_leg = "BOTH"
    /\ IsPos(LongEqAtClose) /\ IsPos(ShortEqAtClose)
    /\ LongEqAtClose # ShortEqAtClose
    /\ long_eq = Sub(LongEqAtClose, LongPenaltyDue)
    /\ short_eq = Sub(ShortEqAtClose, ShortPenaltyDue)
    /\ LastEvent.penalty = Add(LongPenaltyDue, ShortPenaltyDue)
    /\ IsPos(LongPenaltyDue) /\ IsPos(ShortPenaltyDue)

\* the liquidation prices of the position of the current state, as quotients
LiqPriceLongNow ==
    [n |-> usdc_debt,
     d |-> Mul(sol_qty, Sub(I(1), args.venue.maintenance_margin))]
LiqPriceShortNow ==
    [n |-> Add(short_margin, Mul(short_contracts, short_entry)),
     d |-> Mul(short_contracts, Add(I(1), args.venue.maintenance_margin))]
\* the two sides of the long-leg test asset_qty*P - debt <= mm*asset_qty*P and
\* of the short-leg test margin + contracts*(entry - P) <= mm*contracts*P at a
\* price P given as a quotient
LongEquityAtQ(P) == QSub(QMul(QOf(sol_qty), P), QOf(usdc_debt))
LongMaintenanceAtQ(P) ==
    QMul(QOf(Mul(args.venue.maintenance_margin, sol_qty)), P)
ShortEquityAtQ(P) ==
    QAdd(QOf(short_margin),
         QMul(QOf(short_contracts), QSub(QOf(short_entry), P)))
ShortMaintenanceAtQ(P) ==
    QMul(QOf(Mul(args.venue.maintenance_margin, short_contracts)), P)
\* simulation.py between the accrual of a day and the day's decision
BuffersComputed == script = "simulation" /\ pc = "check"

EventsAlternate ==
    /\ \A k \in 1..Len(events) :
          events[k].type = IF k % 2 = 1 THEN "OPEN" ELSE "CLOSE"
    /\ \A k \in 1..(Len(events) - 1) : events[k].date < events[k + 1].date
    /\ \A k \in 1..Len(events) : events[k].date < i
\* the counters count the events, and the state tells which came last
CountersMatchEvents ==
    /\ opens = Cardinality(EventsOfType("OPEN"))
    /\ closes = Cardinality(EventsOfType("CLOSE"))
    /\ closes <= opens /\ opens <= closes + 1
    /\ (opens = closes + 1) <=> (state = "DEPLOYED")
    /\ (opens = closes) <=> (state = "IDLE")

(* C27: in simulation.py the event log alternates OPEN, CLOSE, OPEN, ...     *)
(* from an OPEN on, with strictly increasing dates (at most one event a day: *)
(* no close on the day of the open, no open on the day of the close); in     *)
(* every state closes <= opens <= closes + 1, and opens = closes + 1 exactly *)
(* when the state is DEPLOYED, also when the run has ended deployed.         *)
C27_EventsAlternate ==
    script = "simulation" => (EventsAlternate /\ CountersMatchEvents)

\* a run that opened, closed, opened again and ended deployed
C27_Witness ==
    /\ script = "simulation"
    /\ pc = "done" /\ state = "DEPLOYED"
    /\ Len(events) = 3
    /\ opens = 2 /\ closes = 1
    /\ events[2].date = events[1].date + 1
    /\ events[3].date = events[2].date + 1

\* a day of backtest_comparison.py on which no leg is liquidated and the close
\* lies between the low and the high
QuietDay ==
    /\ AfterAccrual
    /\ ~LongBreachAtLow /\ ~ShortBreachAtHigh
    /\ Le(today.low, today.close) /\ Le(today.close, today.high)
\* 1 / maintenance_margin
InverseMaintenanceMargin == QDiv(QOf(I(1)), QOf(args.venue.maintenance_margin))

(* C28: on a day without liquidation whose close lies between its low and    *)
(* its high, the effective leverage of each leg at the close, as computed    *)
(* for the rebalance trigger, is strictly below 1 / maintenance_margin (so   *)
(* that a trigger of 1 / maintenance_margin or more is never exceeded).      *)
C28_LeverageBelowLiquidation ==
    QuietDay =>
        /\ QLt(eff_lev_long, InverseMaintenanceMargin)
        /\ QLt(eff_lev_short, InverseMaintenanceMargin)


\* every candle of the run has its low, its close and its high at one price
ConstantPrice ==
    \A k \in 1..Len(data) :
        /\ data[k].low = data[1].close
        /\ data[k].close = data[1].close
        /\ data[k].high = data[1].close
\* total_return = final_capital - initial_capital
TotalReturn == Sub(final_capital, args.initial_capital)
\* gross - total_fees - total_liq_penalty, gross = total_carry + total_funding
NetIncome ==
    Sub(Sub(Add(total_carry, total_funding), total_fees), total_liq_penalty)
\* mtm_drag = total_return - (gross - total_fees - total_liq_penalty)
mtm_drag == Sub(TotalReturn, NetIncome)

(* C29: a finished run whose candles all have low = close = high = one      *)
(* price reconciles with no mark-to-market drag: final_capital less         *)
(* initial_capital is total_carry + total_funding - total_fees -            *)
(* total_liq_penalty, the end-of-run close fee included.                    *)
C29_ReconcilesAtConstantPrice ==
    (pc = "done" /\ ConstantPrice) => mtm_drag = Zero


\* the events the step appends
NewEvents == SubSeq(events', Len(events) + 1, Len(events'))
\* the step is a date of backtest_managed.py that adds to the liquidations counter
LiquidationCounted == script = "managed" /\ liquidations' > liquidations
\* the step closes the position and takes 5 % of position_capital from capital
PenaltyApplied ==
    /\ in_position /\ ~in_position'
    /\ \E k \in 1..Len(NewEvents) :
           /\ NewEvents[k].type = "LIQ_PENALTY"
           /\ NewEvents[k].date = i
           /\ NewEvents[k].amount = Neg(Mul(position_capital', ManagedLiqPenaltyPct))
    /\ capital' = Sub(Add(capital, Sub(position_capital', position_capital)),
                      Mul(position_capital', ManagedLiqPenaltyPct))

(* C30: in backtest_managed.py every date on which the liquidations counter *)
(* is incremented also closes the position and applies the 5 % penalty on   *)
(* that date: a LIQ_PENALTY event is emitted and capital is reduced by it,  *)
(* whatever the other leg's proximity check or the low-APY check does.      *)
C30_CountedLiquidationPaysPenalty ==
    [][LiquidationCounted => PenaltyApplied]_vars

====
